---------------------------- MODULE Spec2Model ----------------------------
(***************************************************************************)
(* Thunder Muscle: the filter engine, the content query and the config     *)
(* exclusion predicate (tm.py, lib/config.py), as state machines.          *)
(*                                                                         *)
(* Text is a sequence of one-character strings, so that lower-casing,      *)
(* substring search, suffix tests and regular-expression search are        *)
(* computed, character by character, as Python computes them.              *)
(***************************************************************************)
EXTENDS Integers, Sequences, FiniteSets, TLC

(***************************************************************************)
(* Bounds of the model.                                                    *)
(***************************************************************************)
\* longest dataset file read by filter
MaxEmails == 2
\* most keyword arguments given to one filter_emails call
MaxKeys == 2
\* longest dataset file read by query
MaxQueryEmails == 2
\* longest pattern list of one config filter key
MaxPatterns == 1

(***************************************************************************)
(* Python str operations.                                                  *)
(***************************************************************************)
UpperChars == <<"A","B","C","D","E","F","G","H","I","J","K","L","M",
                "N","O","P","Q","R","S","T","U","V","W","X","Y","Z">>
LowerChars == <<"a","b","c","d","e","f","g","h","i","j","k","l","m",
                "n","o","p","q","r","s","t","u","v","w","x","y","z">>

\* the lower-case letter of each upper-case letter
LowerOf == [u \in { UpperChars[i] : i \in 1..Len(UpperChars) } |->
               LowerChars[CHOOSE i \in 1..Len(UpperChars) : UpperChars[i] = u]]

\* str.lower() of one character
LowerChar(c) == IF c \in DOMAIN LowerOf THEN LowerOf[c] ELSE c

\* str.lower()
Lower(s) == [i \in 1..Len(s) |-> LowerChar(s[i])]

\* str.startswith
StartsWith(s, prefix) ==
    /\ Len(prefix) <= Len(s)
    /\ SubSeq(s, 1, Len(prefix)) = prefix

\* str.endswith
EndsWith(s, suffix) ==
    /\ Len(suffix) <= Len(s)
    /\ SubSeq(s, Len(s) - Len(suffix) + 1, Len(s)) = suffix

\* `sub in s`
Contains(s, sub) ==
    \E i \in 0..(Len(s) - Len(sub)) : SubSeq(s, i + 1, i + Len(sub)) = sub

\* s[n:]
DropPrefix(s, n) == SubSeq(s, n + 1, Len(s))

\* list[:n], n of either sign
SliceTo(list, n) ==
    IF n >= 0
    THEN SubSeq(list, 1, IF n < Len(list) THEN n ELSE Len(list))
    ELSE SubSeq(list, 1, IF Len(list) + n > 0 THEN Len(list) + n ELSE 0)

\* bool(x) of a str
Truthy(s) == Len(s) > 0

(***************************************************************************)
(* Python re, for the pattern dialect the model's inputs are written in:   *)
(* literal characters, "." (any character) and "(" ")" groups; "*" only    *)
(* as the first character, where there is nothing for it to repeat; and a  *)
(* repeat count "{n}" only with n too large to compile.                    *)
(***************************************************************************)
RECURSIVE ParenDepth(_, _, _)
\* depth after reading p[i..], -1 once a ")" closes nothing
ParenDepth(p, i, depth) ==
    IF depth < 0 THEN -1
    ELSE IF i > Len(p) THEN depth
    ELSE IF p[i] = "(" THEN ParenDepth(p, i + 1, depth + 1)
    ELSE IF p[i] = ")" THEN ParenDepth(p, i + 1, depth - 1)
    ELSE ParenDepth(p, i + 1, depth)

Digits == {"0", "1", "2", "3", "4", "5", "6", "7", "8", "9"}

\* a repeat count {n} of more than ten digits, none leading zero, after an
\* atom: n exceeds MAXREPEAT (4294967295) and re.compile raises
\* OverflowError("the repetition number is too large"), which is no re.error
OversizedRepeat(p) ==
    \E i \in 2..Len(p), j \in 2..Len(p) :
        /\ p[i] = "{"
        /\ p[j] = "}"
        /\ j - i - 1 > 10
        /\ p[i + 1] # "0"
        /\ \A k \in (i + 1)..(j - 1) : p[k] \in Digits

\* what re.compile(p) raises: "re.error" when the parentheses do not balance
\* or "*" opens the pattern (nothing to repeat), "none" when it compiles
CompileError(p) ==
    IF OversizedRepeat(p) THEN "OverflowError"
    ELSE IF ParenDepth(p, 1, 0) # 0 \/ (Len(p) > 0 /\ p[1] = "*") THEN "re.error"
    ELSE "none"

\* re.compile(p) returns
Compiles(p) == CompileError(p) = "none"

\* the atoms of a compiled pattern: groups only bracket a concatenation
Atoms(p) == SelectSeq(p, LAMBDA c : c # "(" /\ c # ")")

\* one atom against one character
AtomMatches(atom, c, ignorecase) ==
    \/ atom = "."
    \/ IF ignorecase THEN LowerChar(atom) = LowerChar(c) ELSE atom = c

\* regex.search(s) is not None, for a pattern that compiles
Search(p, s, ignorecase) ==
    LET atoms == Atoms(p) IN
    \E i \in 0..(Len(s) - Len(atoms)) :
        \A j \in 1..Len(atoms) : AtomMatches(atoms[j], s[i + j], ignorecase)

(***************************************************************************)
(* State.                                                                  *)
(***************************************************************************)
VARIABLES
    \* tm.py: the command that ran ("none" before any)
    command,
    \* tm.py: the dataset read from input_file
    emails,
    \* tm.py filter: the keyword arguments of filter_emails, in call order
    filters,
    \* tm.py query: --pattern and --case-sensitive
    pattern,
    case_sensitive,
    \* tm.py: the records handed to write_data
    results,
    \* tm.py: output_file was written
    output_written,
    \* tm.py: an exception left filter_emails or query_emails
    raised,
    \* tm.py __main__: "Error: ..." was printed
    error_printed,
    \* tm.py __main__: the exit status, -1 while no process has exited
    exit_code,
    \* config.py should_filter_email: the record and the config filters
    email,
    cfg,
    \* config.py should_filter_email: the return value and the rule whose
    \* return statement produced it (0: none ran)
    excluded,
    decided_by,
    \* tm.py extract_domain: the argument and the return value
    email_addr,
    returned,
    \* tm.py extract_complete_dataset: whether the profile holds
    \* global-messages-db.sqlite, the store's tables, whether a connection
    \* was opened on the store, and the rows fetchall() returned
    store_exists,
    store,
    store_read,
    rows,
    \* tm.py extract: the profile path (None when neither --profile nor the
    \* config names one), the output format, and the exception that left
    \* the command ("none" when it returned)
    profile,
    output_format,
    exception,
    \* analyze_temporal.py main: --analysis and --year; analyze_spam_keywords:
    \* keyword_patterns; and the analysis_data either builds
    analysis,
    year_arg,
    keyword_patterns,
    analysis_data,
    \* tm.py __main__: --format ("none" when not given), the output keys of
    \* config.yaml, the destination file, and the format write_data
    \* returned ("none" when it wrote nothing)
    format_arg,
    config,
    output_file,
    format_used,
    \* tm.py stats: what the command printed
    report,
    \* workflow.py run_workflow: the steps of the workflow file, the number of
    \* the step the loop is at, the steps executed so far with their
    \* results, success_count, where the call stands ("idle", "running",
    \* "returned", "raised") and its return value
    steps,
    step_index,
    executed,
    success_count,
    workflow_state,
    workflow_returned,
    \* analyze_domains.py analyze_top_domains: the threshold argument
    threshold

tmVars == <<command, emails, filters, pattern, case_sensitive, results,
            output_written, raised, error_printed, exit_code>>
cfgVars == <<email, cfg, excluded, decided_by>>
exVars == <<email_addr, returned, store_exists, store, store_read, rows,
           profile, output_format, exception>>
agVars == <<analysis, year_arg, keyword_patterns, analysis_data>>
cliVars == <<format_arg, config, output_file, format_used, report>>
wfVars == <<steps, step_index, executed, success_count, workflow_state,
            workflow_returned>>
adVars == <<threshold>>
vars == <<tmVars, cfgVars, exVars, agVars, cliVars, wfVars, adVars>>

(***************************************************************************)
(* Text the model's inputs are built from.                                 *)
(***************************************************************************)
Empty == <<>>
D_cs_wsu_edu == <<"c","s",".","w","s","u",".","e","d","u">>
D_wsu_edu_com == <<"w","s","u",".","e","d","u",".","c","o","m">>
D_xedu == <<"x","e","d","u">>
D_paren_B == <<"(","B">>
D_A_Edu == <<"A",".","E","d","u">>
P_star_edu == <<"*",".","e","d","u">>
P_star_EDU == <<"*",".","E","D","U">>
P_paren_b == <<"(","b">>
P_W_dot_U == <<"W",".","U">>
P_edu == <<"e","d","u">>
P_a_repeat == <<"a","{","9","9","9","9","9","9","9","9","9","9","9","}">>
T_2020_01 == <<"2","0","2","0","-","0","1">>
T_2019_12 == <<"2","0","1","9","-","1","2">>
Y_19 == <<"1","9">>
S_Hello == <<"H","e","l","l","o">>
S_bye == <<"b","y","e">>
S_HELL == <<"H","E","L","L">>
B_hi == <<"h","i">>
A_me == <<"m","e","@","x",".","i","o">>
F_Inbox == <<"I","n","b","o","x">>

\* an EmailRecord, the fields of tm.py's extraction
EmailRecord(from_domain, date, subject, body, has_body) ==
    [from_domain |-> from_domain, date |-> date, subject |-> subject,
     body |-> body, has_body |-> has_body, to |-> A_me, folder |-> F_Inbox]

\* the records the filter's datasets are drawn from
FilterRecords ==
    { EmailRecord(D_cs_wsu_edu, T_2020_01, S_Hello, B_hi, TRUE),
      EmailRecord(D_wsu_edu_com, T_2020_01, S_bye, Empty, FALSE),
      EmailRecord(D_xedu, T_2019_12, S_Hello, Empty, FALSE),
      EmailRecord(D_paren_B, T_2019_12, S_bye, B_hi, TRUE),
      EmailRecord(D_A_Edu, T_2020_01, S_bye, Empty, FALSE) }

\* the dataset files given to filter
FilterDatasets == UNION { [1..n -> FilterRecords] : n \in 0..MaxEmails }

\* one keyword argument: its key and its value (str for domain, year and
\* subject_contains, flag for has_body, num for limit)
Arg(key, str, flag, num) == [key |-> key, str |-> str, flag |-> flag, num |-> num]

DomainValues ==
    {Empty, P_star_edu, P_star_EDU, P_paren_b, P_W_dot_U, P_edu, P_a_repeat}
YearValues == {Empty, Y_19}
SubjectValues == {Empty, S_HELL}
LimitValues == {-1, 0, 1, 2}

FilterArgs ==
    { Arg("domain", v, FALSE, 0) : v \in DomainValues }
    \cup { Arg("year", v, FALSE, 0) : v \in YearValues }
    \cup { Arg("subject_contains", v, FALSE, 0) : v \in SubjectValues }
    \cup { Arg("has_body", Empty, v, 0) : v \in BOOLEAN }
    \cup { Arg("limit", Empty, FALSE, v) : v \in LimitValues }

\* **filters: each key at most once, in the order the caller wrote them; a
\* key the caller leaves out, or passes as None, constrains nothing
FilterSpecs ==
    { f \in UNION { [1..n -> FilterArgs] : n \in 0..MaxKeys } :
        \A i, j \in 1..Len(f) : i # j => f[i].key # f[j].key }

(***************************************************************************)
(* tm.py filter_emails.                                                    *)
(***************************************************************************)
Outcome(r, rs) == [raised |-> r, results |-> rs]

\* WildcardFilter, comparing from_domain as it is written
WildcardFilterCaseSensitive(rs, value) ==
    LET domain_suffix == Lower(DropPrefix(value, 2)) IN
    SelectSeq(rs, LAMBDA e : EndsWith(e.from_domain, domain_suffix))

\* lines 86-89: the wildcard branch
WildcardFilter(rs, value) ==
    LET domain_suffix == Lower(DropPrefix(value, 2)) IN
    SelectSeq(rs, LAMBDA e : EndsWith(Lower(e.from_domain), domain_suffix))

\* lines 95-97: the handler of re.error
RegexFallback(rs, value) ==
    Outcome(FALSE, SelectSeq(rs, LAMBDA e : Lower(e.from_domain) = Lower(value)))

\* RegexFilter, were the pattern matched against the whole from_domain
RegexFilterWholeString(rs, value) ==
    Outcome(FALSE, SelectSeq(rs, LAMBDA e : Lower(e.from_domain) = Lower(value)))

\* lines 92-97: try compile and search, except re.error; any other
\* exception of re.compile leaves filter_emails
RegexFilter(rs, value) ==
    IF Compiles(value)
    THEN Outcome(FALSE, SelectSeq(rs, LAMBDA e : Search(value, e.from_domain, TRUE)))
    ELSE IF CompileError(value) = "re.error" THEN RegexFallback(rs, value)
    ELSE Outcome(TRUE, <<>>)

\* lines 85-97
DomainFilter(rs, value) ==
    IF StartsWith(value, <<"*", ".">>)
    THEN Outcome(FALSE, WildcardFilter(rs, value))
    ELSE RegexFilter(rs, value)

\* lines 98-99
YearFilter(rs, value) == SelectSeq(rs, LAMBDA e : Contains(e.date, value))

\* SubjectFilter, were the subject lower-cased in the record itself
SubjectFilterInPlace(rs, value) ==
    SelectSeq([i \in 1..Len(rs) |-> [rs[i] EXCEPT !.subject = Lower(@)]],
              LAMBDA e : Contains(e.subject, Lower(value)))

\* lines 100-101
SubjectFilter(rs, value) ==
    SelectSeq(rs, LAMBDA e : Contains(Lower(e.subject), Lower(value)))

\* lines 102-103
HasBodyFilter(rs) == SelectSeq(rs, LAMBDA e : e.has_body = TRUE)

\* lines 104-105
LimitFilter(rs, value) == SliceTo(rs, value)

\* lines 85-105: one turn of the loop, the if/elif chain
ApplyArg(rs, arg) ==
    IF arg.key = "domain" /\ Truthy(arg.str) THEN DomainFilter(rs, arg.str)
    ELSE IF arg.key = "year" /\ Truthy(arg.str) THEN Outcome(FALSE, YearFilter(rs, arg.str))
    ELSE IF arg.key = "subject_contains" /\ Truthy(arg.str)
        THEN Outcome(FALSE, SubjectFilter(rs, arg.str))
    ELSE IF arg.key = "has_body" /\ arg.flag THEN Outcome(FALSE, HasBodyFilter(rs))
    ELSE IF arg.key = "limit" /\ arg.num # 0 THEN Outcome(FALSE, LimitFilter(rs, arg.num))
    ELSE Outcome(FALSE, rs)

RECURSIVE FilterLoop(_, _, _)
\* lines 82-105: for key, value in filters.items()
FilterLoop(rs, fs, i) ==
    IF i > Len(fs) THEN Outcome(FALSE, rs)
    ELSE LET o == ApplyArg(rs, fs[i]) IN
         IF o.raised THEN o ELSE FilterLoop(o.results, fs, i + 1)

\* lines 77-109: results, or the exception that left the loop
filter_emails(es, fs) == FilterLoop(es, fs, 1)

\* the fixed order in which __main__ passes the keys (lines 213-216)
CliKeyOrder == <<"domain", "year", "subject_contains", "has_body", "limit">>

RECURSIVE CliKwargsFrom(_, _)
CliKwargsFrom(fs, k) ==
    IF k > Len(CliKeyOrder) THEN <<>>
    ELSE SelectSeq(fs, LAMBDA a : a.key = CliKeyOrder[k]) \o CliKwargsFrom(fs, k + 1)

\* lines 213-216: whatever the order of the flags on the command line,
\* argparse's namespace is read in this order
CliKwargs(fs) == CliKwargsFrom(fs, 1)

(***************************************************************************)
(* Before any command ran.                                                 *)
(***************************************************************************)
NoEmail == EmailRecord(Empty, Empty, Empty, Empty, FALSE)

TmIdle ==
    /\ command = "none"
    /\ emails = <<>>
    /\ filters = <<>>
    /\ pattern = Empty
    /\ case_sensitive = FALSE
    /\ results = <<>>
    /\ output_written = FALSE
    /\ raised = FALSE
    /\ error_printed = FALSE
    /\ exit_code = -1

(***************************************************************************)
(* The filter command and the filter_emails call.                          *)
(***************************************************************************)
\* lines 226-228, were `exit(1)` left out of the handler
ExitStatusWithoutExit(failed) == 0

\* tm.py lines 226-228: the exit status of __main__, 1 from the handler of
\* `except Exception` and 0 when the command returned
ExitStatus(failed) == IF failed THEN 1 ELSE 0

\* tm.py lines 202-216, 226-228: `tm.py filter`; filter_emails writes the
\* output (line 107) unless an exception left its loop, and the handler of
\* __main__ turns an exception into "Error:" and exit status 1
MainFilter ==
    /\ command = "none"
    /\ \E es \in FilterDatasets, fs \in FilterSpecs :
        LET o == filter_emails(es, CliKwargs(fs)) IN
        /\ command' = "filter"
        /\ emails' = es
        /\ filters' = CliKwargs(fs)
        /\ results' = o.results
        /\ output_written' = ~o.raised
        /\ raised' = o.raised
        /\ error_printed' = o.raised
        /\ exit_code' = ExitStatus(o.raised)
    /\ UNCHANGED <<pattern, case_sensitive, cfgVars, exVars, agVars,
                   cliVars, wfVars, adVars>>

\* tm.py lines 77-109: filter_emails called with keyword arguments in the
\* caller's order
CallFilterEmails ==
    /\ command = "none"
    /\ \E es \in FilterDatasets, fs \in FilterSpecs :
        LET o == filter_emails(es, fs) IN
        /\ command' = "filter_emails"
        /\ emails' = es
        /\ filters' = fs
        /\ results' = o.results
        /\ output_written' = ~o.raised
        /\ raised' = o.raised
    /\ UNCHANGED <<pattern, case_sensitive, error_printed, exit_code, cfgVars, exVars, agVars,
                   cliVars, wfVars, adVars>>

(***************************************************************************)
(* tm.py query_emails and the query command.                               *)
(***************************************************************************)
S_Sale == <<"S","a","l","e">>
S_hello == <<"h","e","l","l","o">>
S_Unsub == <<"U","n","s","u","b">>
B_unsub == <<"u","n","s","u","b">>
P_unsub == <<"u","n","s","u","b">>
P_u_dot_s == <<"u",".","s">>
P_group == <<"(","u","n",")","s","u","b">>
P_paren_u == <<"(","u">>

\* the records the query's datasets are drawn from; the third carries body
\* text under has_body = false
QueryRecords ==
    { EmailRecord(D_cs_wsu_edu, T_2020_01, S_Sale, B_unsub, TRUE),
      EmailRecord(D_xedu, T_2020_01, S_hello, Empty, FALSE),
      EmailRecord(D_xedu, T_2019_12, S_hello, B_unsub, FALSE),
      EmailRecord(D_A_Edu, T_2019_12, S_Unsub, Empty, FALSE),
      EmailRecord(D_A_Edu, T_2020_01, S_hello, B_hi, TRUE) }

QueryDatasets == UNION { [1..n -> QueryRecords] : n \in 0..MaxQueryEmails }

QueryPatterns == {Empty, P_unsub, P_u_dot_s, P_group, P_paren_u, P_a_repeat}

\* lines 124-125, were the body searched whatever has_body says
QueryMatchesAnyBody(p, ignorecase, e) ==
    Search(p, e.subject, ignorecase) \/ Search(p, e.body, ignorecase)

\* lines 124-125: the test of one record
QueryMatches(p, ignorecase, e) ==
    Search(p, e.subject, ignorecase) \/ (e.has_body /\ Search(p, e.body, ignorecase))

\* line 120, were re.error caught and the pattern taken literally
QueryCompileErrorSwallowed(es, p) ==
    Outcome(FALSE, SelectSeq(es, LAMBDA e : Contains(e.subject, p)))

\* line 120: re.compile raises and nothing in query_emails catches it
QueryCompileError(es, p) == Outcome(TRUE, <<>>)

\* lines 111-128
query_emails(es, p, cs) ==
    IF ~Truthy(p) THEN Outcome(FALSE, es)
    ELSE IF ~Compiles(p) THEN QueryCompileError(es, p)
    ELSE Outcome(FALSE, SelectSeq(es, LAMBDA e : QueryMatches(p, ~cs, e)))

\* lines 202-204, 217-221, 226-228: `tm.py query`; write_data runs only if
\* query_emails returned
MainQuery ==
    /\ command = "none"
    /\ \E es \in QueryDatasets, p \in QueryPatterns, cs \in BOOLEAN :
        LET o == query_emails(es, p, cs) IN
        /\ command' = "query"
        /\ emails' = es
        /\ pattern' = p
        /\ case_sensitive' = cs
        /\ results' = o.results
        /\ output_written' = ~o.raised
        /\ raised' = o.raised
        /\ error_printed' = o.raised
        /\ exit_code' = ExitStatus(o.raised)
    /\ UNCHANGED <<filters, cfgVars, exVars, agVars,
                   cliVars, wfVars, adVars>>

\* lines 111-128: query_emails called by an analyzer; it writes nothing
CallQueryEmails ==
    /\ command = "none"
    /\ \E es \in QueryDatasets, p \in QueryPatterns, cs \in BOOLEAN :
        LET o == query_emails(es, p, cs) IN
        /\ command' = "query_emails"
        /\ emails' = es
        /\ pattern' = p
        /\ case_sensitive' = cs
        /\ results' = o.results
        /\ raised' = o.raised
    /\ UNCHANGED <<filters, output_written, error_printed, exit_code, cfgVars, exVars, agVars,
                   cliVars, wfVars, adVars>>

(***************************************************************************)
(* lib/config.py should_filter_email.                                      *)
(*                                                                         *)
(* The config filters are a dict.  ignore_from_domains and                 *)
(* include_from_domains may be missing, and then the older keys            *)
(* ignore_domains and include_domains are read; a missing list reads as    *)
(* [], a missing date as None, and both are written here as the empty      *)
(* value.                                                                  *)
(***************************************************************************)
D_b_com == <<"b",".","c","o","m">>
P_XEDU == <<"X","E","D","U">>
P_CS_WSU_EDU == <<"C","S",".","W","S","U",".","E","D","U">>
A_bob == <<"B","o","b","@","Y",".","o","r","g">>
P_y_org == <<"y",".","O","R","G">>
F_Trash == <<"T","r","a","s","h">>
P_trash == <<"t","r","a","s","h">>
T_2021_03 == <<"2","0","2","1","-","0","3">>
P_2020 == <<"2","0","2","0">>

ConfigRecord(from_domain, to, folder, date) ==
    [EmailRecord(from_domain, date, S_hello, Empty, FALSE)
        EXCEPT !.to = to, !.folder = folder]

\* the records should_filter_email is asked about
ConfigRecords ==
    { ConfigRecord(D_cs_wsu_edu, A_me, F_Inbox, T_2020_01),
      ConfigRecord(D_xedu, A_me, F_Inbox, T_2020_01),
      ConfigRecord(D_b_com, A_me, F_Inbox, T_2020_01),
      ConfigRecord(D_A_Edu, A_bob, F_Inbox, T_2020_01),
      ConfigRecord(D_b_com, A_me, F_Trash, T_2020_01),
      ConfigRecord(D_b_com, A_me, F_Inbox, T_2019_12),
      ConfigRecord(D_b_com, A_me, F_Inbox, Empty),
      ConfigRecord(D_b_com, A_me, F_Inbox, T_2021_03),
      ConfigRecord(D_xedu, A_bob, F_Trash, T_2019_12),
      ConfigRecord(D_cs_wsu_edu, A_bob, F_Trash, T_2021_03) }

\* lists of at most MaxPatterns patterns
ListsOf(patterns) == UNION { [1..n -> patterns] : n \in 0..MaxPatterns }

\* a key that may be missing from the dict
Missing == [present |-> FALSE, list |-> <<>>]
Given(list) == [present |-> TRUE, list |-> list]

IgnorePatterns == {P_star_edu, P_XEDU}
IncludePatterns == {P_star_EDU, P_CS_WSU_EDU}

ConfigFilters ==
    [ ignore_from_domains : {Missing} \cup { Given(l) : l \in ListsOf(IgnorePatterns) },
      ignore_domains : {<<>>, <<P_XEDU>>},
      include_from_domains : {Missing} \cup { Given(l) : l \in ListsOf(IncludePatterns) },
      include_domains : {<<>>, <<P_star_EDU>>},
      ignore_to_domains : ListsOf({P_y_org}),
      ignore_folders : ListsOf({P_trash}),
      date_after : {Empty, P_2020, T_2020_01},
      date_before : {Empty, T_2020_01} ]

\* the code points of the characters dates and year keys are written in,
\* ascending
CodeOrder ==
    <<" ", "-", "0", "1", "2", "3", "4", "5", "6", "7", "8", "9", ":">>
        \o UpperChars \o LowerChars
Code(c) == CHOOSE i \in 1..Len(CodeOrder) : CodeOrder[i] = c

RECURSIVE StrLess(_, _)
\* a < b of two str
StrLess(a, b) ==
    IF b = <<>> THEN FALSE
    ELSE IF a = <<>> THEN TRUE
    ELSE IF Head(a) = Head(b) THEN StrLess(Tail(a), Tail(b))
    ELSE Code(Head(a)) < Code(Head(b))

\* line 121: not filters
NoFilters(f) ==
    /\ ~f.ignore_from_domains.present /\ f.ignore_domains = <<>>
    /\ ~f.include_from_domains.present /\ f.include_domains = <<>>
    /\ f.ignore_to_domains = <<>>
    /\ f.ignore_folders = <<>>
    /\ f.date_after = <<>>
    /\ f.date_before = <<>>

\* lines 125-127
IgnoreFromDomains(f) ==
    IF f.ignore_from_domains.present THEN f.ignore_from_domains.list ELSE f.ignore_domains

\* lines 138-140
IncludeFromDomains(f) ==
    IF f.include_from_domains.present THEN f.include_from_domains.list
    ELSE f.include_domains

RECURSIVE IgnoreFromLoop(_, _, _)
\* lines 130-135: TRUE when the loop returns True
IgnoreFromLoop(domain, patterns, i) ==
    IF i > Len(patterns) THEN FALSE
    ELSE IF StartsWith(patterns[i], <<"*", ".">>)
        THEN IF EndsWith(domain, Lower(DropPrefix(patterns[i], 2))) THEN TRUE
             ELSE IgnoreFromLoop(domain, patterns, i + 1)
    ELSE IF domain = Lower(patterns[i]) THEN TRUE
    ELSE IgnoreFromLoop(domain, patterns, i + 1)

\* lines 128-135
IgnoreFromHit(e, f) ==
    /\ IgnoreFromDomains(f) # <<>>
    /\ IgnoreFromLoop(Lower(e.from_domain), IgnoreFromDomains(f), 1)

RECURSIVE IncludeFromLoop(_, _, _)
\* lines 143-151: the value of `included` after the loop
IncludeFromLoop(domain, patterns, i) ==
    IF i > Len(patterns) THEN FALSE
    ELSE IF StartsWith(patterns[i], <<"*", ".">>)
        THEN IF EndsWith(domain, Lower(DropPrefix(patterns[i], 2))) THEN TRUE
             ELSE IncludeFromLoop(domain, patterns, i + 1)
    ELSE IF domain = Lower(patterns[i]) THEN TRUE
    ELSE IncludeFromLoop(domain, patterns, i + 1)

\* lines 141-153, were the include list read only when nothing is ignored
IncludeFromMissUnlessIgnoring(e, f) ==
    /\ IgnoreFromDomains(f) = <<>>
    /\ IncludeFromDomains(f) # <<>>
    /\ ~IncludeFromLoop(Lower(e.from_domain), IncludeFromDomains(f), 1)

\* lines 141-153
IncludeFromMiss(e, f) ==
    /\ IncludeFromDomains(f) # <<>>
    /\ ~IncludeFromLoop(Lower(e.from_domain), IncludeFromDomains(f), 1)

RECURSIVE SubstringLoop(_, _, _)
\* lines 159-161, 167-169: TRUE when the loop returns True
SubstringLoop(text, patterns, i) ==
    IF i > Len(patterns) THEN FALSE
    ELSE IF Contains(text, Lower(patterns[i])) THEN TRUE
    ELSE SubstringLoop(text, patterns, i + 1)

\* lines 156-161
IgnoreToHit(e, f) ==
    /\ f.ignore_to_domains # <<>>
    /\ SubstringLoop(Lower(e.to), f.ignore_to_domains, 1)

\* lines 164-169, were the folder compared as it is written
IgnoreFolderHitCaseSensitive(e, f) ==
    /\ f.ignore_folders # <<>>
    /\ SubstringLoop(e.folder, f.ignore_folders, 1)

\* lines 164-169
IgnoreFolderHit(e, f) ==
    /\ f.ignore_folders # <<>>
    /\ SubstringLoop(Lower(e.folder), f.ignore_folders, 1)

\* lines 172-179, were a date on a bound outside the range
DateRangeHitOnBound(e, f) ==
    /\ Truthy(f.date_after) \/ Truthy(f.date_before)
    /\ \/ Truthy(f.date_after) /\ (StrLess(e.date, f.date_after) \/ e.date = f.date_after)
       \/ Truthy(f.date_before) /\ (StrLess(f.date_before, e.date) \/ e.date = f.date_before)

\* lines 172-179
DateRangeHit(e, f) ==
    /\ Truthy(f.date_after) \/ Truthy(f.date_before)
    /\ \/ Truthy(f.date_after) /\ StrLess(e.date, f.date_after)
       \/ Truthy(f.date_before) /\ StrLess(f.date_before, e.date)

\* lines 119-181: the rule whose `return True` ran, 0 when False is returned
ReturnSite(e, f) ==
    IF NoFilters(f) THEN 0
    ELSE IF IgnoreFromHit(e, f) THEN 1
    ELSE IF IncludeFromMiss(e, f) THEN 2
    ELSE IF IgnoreToHit(e, f) THEN 3
    ELSE IF IgnoreFolderHit(e, f) THEN 4
    ELSE IF DateRangeHit(e, f) THEN 5
    ELSE 0

\* lines 119-181
should_filter_email(e, f) == ReturnSite(e, f) # 0

CallShouldFilterEmail ==
    /\ command = "none"
    /\ \E e \in ConfigRecords, f \in ConfigFilters :
        /\ email' = e
        /\ cfg' = f
        /\ excluded' = should_filter_email(e, f)
        /\ decided_by' = ReturnSite(e, f)
    /\ command' = "should_filter_email"
    /\ UNCHANGED <<emails, filters, pattern, case_sensitive, results,
                   output_written, raised, error_printed, exit_code, exVars, agVars,
                   cliVars, wfVars, adVars>>

(***************************************************************************)
(* The initial state, and the specification of the filter engine.          *)
(***************************************************************************)
NoConfig ==
    [ ignore_from_domains |-> Missing, ignore_domains |-> <<>>,
      include_from_domains |-> Missing, include_domains |-> <<>>,
      ignore_to_domains |-> <<>>, ignore_folders |-> <<>>,
      date_after |-> Empty, date_before |-> Empty ]

CfgIdle ==
    /\ email = NoEmail
    /\ cfg = NoConfig
    /\ excluded = FALSE
    /\ decided_by = 0

\* a Python value that is None or a str
PyNone == [is_none |-> TRUE, str |-> <<>>]
PyStr(text) == [is_none |-> FALSE, str |-> text]

ExIdle ==
    /\ email_addr = PyNone
    /\ returned = <<>>
    /\ store_exists = FALSE
    /\ store = [messages |-> <<>>, messagesText_content |-> {}, folderLocations |-> {}]
    /\ store_read = FALSE
    /\ rows = <<>>
    /\ profile = PyNone
    /\ output_format = "json"
    /\ exception = "none"

\* an optional int: None, or a number
NoInt == [is_none |-> TRUE, int |-> 0]
PyInt(n) == [is_none |-> FALSE, int |-> n]

AgIdle ==
    /\ analysis = "none"
    /\ year_arg = NoInt
    /\ keyword_patterns = <<>>
    /\ analysis_data = <<>>

\* a config.yaml without `defaults.output_format` and `data.default_format`
NoOutputConfig == [output_format |-> "absent", default_format |-> "absent"]

CliIdle ==
    /\ format_arg = "none"
    /\ config = NoOutputConfig
    /\ output_file = Empty
    /\ format_used = "none"
    /\ report = <<>>

WfIdle ==
    /\ steps = <<>>
    /\ step_index = 0
    /\ executed = <<>>
    /\ success_count = 0
    /\ workflow_state = "idle"
    /\ workflow_returned = FALSE

\* a float threshold, kept exact as numerator and denominator
Ratio(num, den) == [num |-> num, den |-> den]

AdIdle == threshold = Ratio(0, 1)

Init == TmIdle /\ CfgIdle /\ ExIdle /\ AgIdle /\ CliIdle /\ WfIdle /\ AdIdle

NextFilter == MainFilter \/ CallFilterEmails

SpecFilter == Init /\ [][NextFilter]_vars

(***************************************************************************)
(* Specification of the content query.                                     *)
(***************************************************************************)
NextQuery == MainQuery \/ CallQueryEmails

SpecQuery == Init /\ [][NextQuery]_vars

(***************************************************************************)
(* Specification of the config exclusion predicate.                        *)
(***************************************************************************)
NextConfig == CallShouldFilterEmail

SpecConfig == Init /\ [][NextConfig]_vars

(***************************************************************************)
(* What the claims about the filter engine speak of.                       *)
(***************************************************************************)
FilterRan == command \in {"filter", "filter_emails"}

\* the keyword argument that constrains: present and truthy
Constrains(arg) ==
    \/ arg.key \in {"domain", "year", "subject_contains"} /\ arg.str # <<>>
    \/ arg.key = "has_body" /\ arg.flag
    \/ arg.key = "limit" /\ arg.num # 0

HasArg(key) == \E i \in 1..Len(filters) : filters[i].key = key /\ Constrains(filters[i])

ArgOf(key) == filters[CHOOSE i \in 1..Len(filters) : filters[i].key = key]

\* domain is the only key that constrains
OnlyDomain == HasArg("domain") /\ \A i \in 1..Len(filters) :
                  Constrains(filters[i]) => filters[i].key = "domain"

IsWildcard(value) == Len(value) >= 2 /\ value[1] = "*" /\ value[2] = "."

\* the records of `list` of which P is true, in the order of `list`
Those(list, P(_)) == SelectSeq(list, P)

\* the predicate each key stands for
DomainMatch(e, value) ==
    IF IsWildcard(value) THEN EndsWith(Lower(e.from_domain), Lower(DropPrefix(value, 2)))
    ELSE IF Compiles(value) THEN Search(value, e.from_domain, TRUE)
    ELSE Lower(e.from_domain) = Lower(value)

Satisfies(e, arg) ==
    CASE arg.key = "domain" -> DomainMatch(e, arg.str)
      [] arg.key = "year" -> Contains(e.date, arg.str)
      [] arg.key = "subject_contains" -> Contains(Lower(e.subject), Lower(arg.str))
      [] arg.key = "has_body" -> e.has_body
      [] OTHER -> TRUE

\* the record passes every predicate of the call other than limit
PassesAll(e) ==
    \A i \in 1..Len(filters) :
        (Constrains(filters[i]) /\ filters[i].key # "limit") => Satisfies(e, filters[i])

RECURSIVE IsSubsequence(_, _)
IsSubsequence(a, b) ==
    IF a = <<>> THEN TRUE
    ELSE IF b = <<>> THEN FALSE
    ELSE IF Head(a) = Head(b) THEN IsSubsequence(Tail(a), Tail(b))
    ELSE IsSubsequence(a, Tail(b))

FirstN(list, n) == SubSeq(list, 1, IF n < Len(list) THEN n ELSE Len(list))

(***************************************************************************)
(* C1: with limit N >= 1, whatever the order of the keys, the output is    *)
(* the first N of the records that pass every other predicate (all of      *)
(* them if fewer than N), in the original order.                           *)
(***************************************************************************)
C1_LimitAppliedLast ==
    (FilterRan /\ output_written /\ HasArg("limit") /\ ArgOf("limit").num >= 1)
        => results = FirstN(Those(emails, PassesAll), ArgOf("limit").num)

(***************************************************************************)
(* C3: a domain pattern that is no wildcard and does not compile as a      *)
(* regular expression never raises; the run completes, writes its output,  *)
(* and keeps exactly the records whose from_domain equals the pattern      *)
(* ignoring case.                                                          *)
(***************************************************************************)
MalformedDomain ==
    /\ FilterRan
    /\ HasArg("domain")
    /\ ~IsWildcard(ArgOf("domain").str)
    /\ ~Compiles(ArgOf("domain").str)

EqualsPatternIgnoringCase(e) == Lower(e.from_domain) = Lower(ArgOf("domain").str)

C3_MalformedDomainDegrades ==
    MalformedDomain
        => /\ ~raised
           /\ ~error_printed
           /\ output_written
           /\ command = "filter" => exit_code = 0
           /\ OnlyDomain => results = Those(emails, EqualsPatternIgnoringCase)

(***************************************************************************)
(* C4: a domain pattern that is no wildcard and compiles keeps a record    *)
(* iff the pattern is found anywhere inside from_domain, ignoring case;    *)
(* equality with the pattern is not required.                              *)
(***************************************************************************)
CompiledDomain ==
    /\ FilterRan
    /\ OnlyDomain
    /\ ~IsWildcard(ArgOf("domain").str)
    /\ Compiles(ArgOf("domain").str)

FoundInDomain(e) == Search(ArgOf("domain").str, e.from_domain, TRUE)

C4_DomainRegexSearch ==
    CompiledDomain => ~raised /\ results = Those(emails, FoundInDomain)

\* a kept record whose from_domain is not the pattern, beside a dropped one
C4_Witness ==
    /\ CompiledDomain
    /\ Len(results) = 1
    /\ Len(emails) = 2
    /\ ~EqualsPatternIgnoringCase(results[1])

(***************************************************************************)
(* C5: a domain pattern *.S keeps a record iff its from_domain, ignoring   *)
(* case, ends with S.                                                      *)
(***************************************************************************)
WildcardDomain == FilterRan /\ OnlyDomain /\ IsWildcard(ArgOf("domain").str)

EndsWithSuffix(e) ==
    LET S == DropPrefix(ArgOf("domain").str, 2) IN
    \E k \in 0..Len(e.from_domain) :
        /\ Len(e.from_domain) - k = Len(S)
        /\ \A j \in 1..Len(S) : LowerChar(e.from_domain[k + j]) = LowerChar(S[j])

C5_WildcardSuffix ==
    WildcardDomain => ~raised /\ results = Those(emails, EndsWithSuffix)

\* a record kept although its from_domain and the suffix differ in case
C5_Witness ==
    /\ WildcardDomain
    /\ Len(results) = 1
    /\ Len(emails) = 2
    /\ ~EndsWith(results[1].from_domain, DropPrefix(ArgOf("domain").str, 2))

(***************************************************************************)
(* C6: the pattern *.edu keeps cs.wsu.edu, drops wsu.edu.com, and keeps a  *)
(* record only when ".edu", dot included, ends its from_domain.            *)
(***************************************************************************)
DotEdu == <<".", "e", "d", "u">>

C6_DottedSuffixAtTail ==
    (FilterRan /\ OnlyDomain /\ ArgOf("domain").str = P_star_edu)
        => /\ Those(results, LAMBDA e : e.from_domain = D_cs_wsu_edu)
                = Those(emails, LAMBDA e : e.from_domain = D_cs_wsu_edu)
           /\ \A i \in 1..Len(results) : results[i].from_domain # D_wsu_edu_com
           /\ \A i \in 1..Len(results) : EndsWith(Lower(results[i].from_domain), DotEdu)

(***************************************************************************)
(* C7: without limit, the output holds exactly the records that satisfy    *)
(* every present, truthy predicate; a missing or falsy key constrains      *)
(* nothing.                                                                *)
(***************************************************************************)
C7_PredicatesComposeByAnd ==
    (FilterRan /\ ~HasArg("limit")) => ~raised /\ results = Those(emails, PassesAll)

(***************************************************************************)
(* C8: the output is a subsequence of the input, its records unchanged.    *)
(***************************************************************************)
C8_SubsequenceUnmutated ==
    FilterRan => /\ IsSubsequence(results, emails)
                 /\ ~output_written => results = <<>>

\* the first of two records was removed and the second came out as it was
C8_Witness ==
    /\ FilterRan
    /\ Len(emails) = 2
    /\ emails[1] # emails[2]
    /\ results = <<emails[2]>>
    /\ HasArg("subject_contains")

(***************************************************************************)
(* C2: with a non-empty pattern that compiles, query_emails returns, in    *)
(* the original order, exactly the records whose subject holds the         *)
(* pattern, or whose has_body is true and whose body holds it; a record    *)
(* with has_body false is judged by its subject alone.                     *)
(***************************************************************************)
QueryRan == command \in {"query", "query_emails"}

ValidQuery == QueryRan /\ pattern # <<>> /\ Compiles(pattern)

FoundIn(text) == Search(pattern, text, ~case_sensitive)

SubjectOrPresentBody(e) == FoundIn(e.subject) \/ (e.has_body /\ FoundIn(e.body))

C2_QueryMatchesSubjectOrBody ==
    ValidQuery
        => /\ ~raised
           /\ results = Those(emails, SubjectOrPresentBody)
           /\ \A i \in 1..Len(results) :
                ~results[i].has_body => FoundIn(results[i].subject)

\* a record whose stale body alone matches was dropped, one with a body kept
C2_Witness ==
    /\ ValidQuery
    /\ Len(emails) = 2
    /\ ~emails[1].has_body /\ FoundIn(emails[1].body) /\ ~FoundIn(emails[1].subject)
    /\ results = <<emails[2]>>
    /\ emails[2].has_body /\ ~FoundIn(emails[2].subject)

(***************************************************************************)
(* C9: a pattern that does not compile is fatal to query: the error        *)
(* leaves query_emails, __main__ prints it after "Error:", the exit status *)
(* is non-zero and no output is written.                                   *)
(***************************************************************************)
InvalidQuery == QueryRan /\ pattern # <<>> /\ ~Compiles(pattern)

C9_InvalidQueryPatternIsFatal ==
    InvalidQuery
        => /\ raised
           /\ ~output_written
           /\ results = <<>>
           /\ command = "query" => (error_printed /\ exit_code > 0)

\* `tm.py query --pattern "(u"` on a dataset with records ended in an error
C9_Witness ==
    /\ InvalidQuery
    /\ command = "query"
    /\ Len(emails) > 0
    /\ exit_code = 1

(***************************************************************************)
(* C10: should_filter_email tries (1) ignore-from-domain, (2) include-     *)
(* from-domain, (3) ignore-to-domain, (4) ignore-folder, (5) date range,   *)
(* in this order, and the first rule that applies decides; it returns true *)
(* iff one of the five applies, false when none does or no filters are     *)
(* configured.                                                             *)
(***************************************************************************)
ConfigRan == command = "should_filter_email"

\* the pattern of a from-domain list matches the record's domain
FromPatternMatches(p) ==
    LET domain == Lower(email.from_domain) IN
    IF IsWildcard(p) THEN EndsWith(domain, Lower(DropPrefix(p, 2)))
    ELSE domain = Lower(p)

ElementsOf(list) == { list[i] : i \in 1..Len(list) }

ConfiguredIgnore ==
    IF cfg.ignore_from_domains.present THEN ElementsOf(cfg.ignore_from_domains.list)
    ELSE ElementsOf(cfg.ignore_domains)

ConfiguredInclude ==
    IF cfg.include_from_domains.present THEN ElementsOf(cfg.include_from_domains.list)
    ELSE ElementsOf(cfg.include_domains)

RuleApplies(n) ==
    CASE n = 1 -> \E p \in ConfiguredIgnore : FromPatternMatches(p)
      [] n = 2 -> ConfiguredInclude # {} /\ \A p \in ConfiguredInclude : ~FromPatternMatches(p)
      [] n = 3 -> \E p \in ElementsOf(cfg.ignore_to_domains) : Contains(Lower(email.to), Lower(p))
      [] n = 4 -> \E p \in ElementsOf(cfg.ignore_folders) : Contains(Lower(email.folder), Lower(p))
      [] n = 5 -> \/ cfg.date_after # <<>> /\ StrLess(email.date, cfg.date_after)
                  \/ cfg.date_before # <<>> /\ StrLess(cfg.date_before, email.date)

Rules == 1..5

MatchesNoInclude == \A p \in ConfiguredInclude : ~FromPatternMatches(p)

C11_IncludeListExcludesTheRest ==
    ConfigRan
        => /\ (ConfiguredInclude # {} /\ MatchesNoInclude) => excluded
           /\ ~RuleApplies(1) =>
                (decided_by = 2 <=> (ConfiguredInclude # {} /\ MatchesNoInclude))
           /\ ConfiguredInclude = {} => decided_by # 2

\* an ignore list is configured and does not match; the include list decided
C11_Witness ==
    /\ ConfigRan
    /\ cfg.include_from_domains.present
    /\ cfg.include_from_domains.list # <<>>
    /\ ConfiguredIgnore # {}
    /\ ~RuleApplies(1)
    /\ MatchesNoInclude
    /\ excluded
    /\ decided_by = 2

(***************************************************************************)
(* C12: the date rule compares `date` as text, character by character: a   *)
(* record that rules 1-4 leave alone is excluded iff date_after is set and *)
(* date < date_after, or date_before is set and date > date_before; a date *)
(* equal to a bound is inside, and an empty date is excluded whenever      *)
(* date_after is set.                                                      *)
(***************************************************************************)
\* a sorts before b: equal up to k, then a ends or a's character is smaller
Precedes(a, b) ==
    \E k \in 0..Len(a) :
        /\ k <= Len(b)
        /\ \A i \in 1..k : a[i] = b[i]
        /\ \/ k = Len(a) /\ k < Len(b)
           \/ k < Len(a) /\ k < Len(b) /\ Code(a[k + 1]) < Code(b[k + 1])

BeforeRange == cfg.date_after # <<>> /\ Precedes(email.date, cfg.date_after)
AfterRange == cfg.date_before # <<>> /\ Precedes(cfg.date_before, email.date)
RulesBeforeDate == 1..4

C12_DateRangeByStringOrder ==
    (ConfigRan /\ \A n \in RulesBeforeDate : ~RuleApplies(n))
        => /\ excluded <=> (BeforeRange \/ AfterRange)
           /\ (email.date = cfg.date_after /\ ~AfterRange) => ~excluded
           /\ (email.date = cfg.date_before /\ ~BeforeRange) => ~excluded
           /\ (email.date = <<>> /\ cfg.date_after # <<>>) => excluded

\* a record without date met date_after and was excluded by the date rule
C12_Witness ==
    /\ ConfigRan
    /\ \A n \in RulesBeforeDate : ~RuleApplies(n)
    /\ email.date = <<>>
    /\ cfg.date_after # <<>>
    /\ excluded
    /\ decided_by = 5

\* a record dated on date_after, with date_before later or unset, was kept
C12_BoundIsInside ==
    /\ ConfigRan
    /\ email.date # <<>>
    /\ email.date = cfg.date_after
    /\ ~excluded

(***************************************************************************)
(* tm.py extract_domain.                                                   *)
(***************************************************************************)
MaxAddrLen == 3

\* \s, and the class [a-zA-Z0-9.-]
Whitespace == {" ", "\t", "\n"}
Letters == { UpperChars[i] : i \in 1..Len(UpperChars) }
               \cup { LowerChars[i] : i \in 1..Len(LowerChars) }
HostChars == Letters \cup Digits \cup {".", "-"}

W_unknown == <<"u", "n", "k", "n", "o", "w", "n">>
W_malformed == <<"m", "a", "l", "f", "o", "r", "m", "e", "d">>

\* a match object; a group that took no part in the match is None, kept as <<>>
NoMatch == [found |-> FALSE, group1 |-> <<>>, group2 |-> <<>>]
Match(g1, g2) == [found |-> TRUE, group1 |-> g1, group2 |-> g2]

RECURSIVE IndexFrom(_, _, _)
\* s.find(c, i - 1) + 1: the first index >= i that holds c, 0 when none does
IndexFrom(s, c, i) ==
    IF i > Len(s) THEN 0
    ELSE IF s[i] = c THEN i
    ELSE IndexFrom(s, c, i + 1)

RECURSIVE RunEnd(_, _, _)
\* where the longest run of characters outside (inside = FALSE) or inside
\* (inside = TRUE) `class` that starts at i ends; i - 1 when it is empty
RunEnd(s, i, class) ==
    IF i > Len(s) \/ ((s[i] \in class.chars) # class.inside) THEN i - 1
    ELSE RunEnd(s, i + 1, class)

\* [^\s<>] and [a-zA-Z0-9.-]
TokenClass == [chars |-> Whitespace \cup {"<", ">"}, inside |-> FALSE]
HostClass == [chars |-> HostChars, inside |-> TRUE]

\* line 20, first alternative at i: "<", one or more characters that are not
\* ">", then ">"
BracketMatch(s, i) ==
    LET j == IndexFrom(s, ">", i + 1) IN
    IF s[i] = "<" /\ j > i + 1 THEN Match(SubSeq(s, i + 1, j - 1), <<>>)
    ELSE NoMatch

\* line 20, second alternative at i: the greedy [^\s<>]+ gives characters
\* back until an "@" with a [^\s<>] after it is found, and the second
\* [^\s<>]+ runs to the end of the run
BareMatch(s, i) ==
    LET e == RunEnd(s, i, TokenClass) IN
    IF \E k \in (i + 1)..(e - 1) : s[k] = "@" THEN Match(<<>>, SubSeq(s, i, e))
    ELSE NoMatch

RECURSIVE AddressSearch(_, _)
\* line 20: re.search tries each start position from the left, and at each
\* the alternatives in order
AddressSearch(s, i) ==
    IF i > Len(s) THEN NoMatch
    ELSE IF BracketMatch(s, i).found THEN BracketMatch(s, i)
    ELSE IF BareMatch(s, i).found THEN BareMatch(s, i)
    ELSE AddressSearch(s, i + 1)

RECURSIVE HostSearchLowerOnly(_, _)
\* line 23, were the class [a-z0-9.-]
HostSearchLowerOnly(t, i) ==
    LET class == [chars |-> HostChars \ { UpperChars[k] : k \in 1..Len(UpperChars) },
                  inside |-> TRUE] IN
    IF i > Len(t) THEN NoMatch
    ELSE IF t[i] = "@" /\ RunEnd(t, i + 1, class) > i
        THEN Match(SubSeq(t, i + 1, RunEnd(t, i + 1, class)), <<>>)
    ELSE HostSearchLowerOnly(t, i + 1)

RECURSIVE HostSearch(_, _)
\* line 23: re.search(r'@([a-zA-Z0-9.-]+)', email_clean) from position i
HostSearch(t, i) ==
    IF i > Len(t) THEN NoMatch
    ELSE IF t[i] = "@" /\ RunEnd(t, i + 1, HostClass) > i
        THEN Match(SubSeq(t, i + 1, RunEnd(t, i + 1, HostClass)), <<>>)
    ELSE HostSearch(t, i + 1)

\* what a call leaves: a return value, or an exception
Returned(value) == [raised |-> FALSE, value |-> value]
Raised == [raised |-> TRUE, value |-> <<>>]

\* line 22: match.group(1) or match.group(2)
email_clean(match) == IF match.group1 # <<>> THEN match.group1 ELSE match.group2

\* line 24, were domain_match.group(1) read without the test of domain_match:
\* None has no attribute `group`
DomainOrAttributeError(domain_match) ==
    IF domain_match.found THEN Returned(Lower(domain_match.group1)) ELSE Raised

\* line 24, without .lower()
DomainKeepingCase(domain_match) ==
    IF domain_match.found THEN Returned(domain_match.group1)
    ELSE Returned(W_malformed)

\* line 24
DomainOrMalformed(domain_match) ==
    IF domain_match.found THEN Returned(Lower(domain_match.group1))
    ELSE Returned(W_malformed)

\* lines 15-25
extract_domain(addr) ==
    IF addr.is_none \/ addr.str = <<>> THEN Returned(W_unknown)
    ELSE LET match == AddressSearch(addr.str, 1) IN
         IF match.found THEN DomainOrMalformed(HostSearch(email_clean(match), 1))
         ELSE Returned(W_malformed)

\* the headers extract_domain is called on
X_Name_user == <<"N", "a", "m", "e", " ", "<", "u", "s", "e", "r", "@", "E", "x", "a", "m", "p", "l", "e", ".", "C", "O", "M", ">">>
X_not_an_address == <<"n", "o", "t", " ", "a", "n", " ", "a", "d", "d", "r", "e", "s", "s">>
X_user_at == <<"u", "s", "e", "r", "@">>
X_two_addresses == <<"a", "@", "b", ".", "c", "o", ",", " ", "<", "c", "@", "D", ".", "c", "o", ">">>
X_unbalanced == <<"B", "o", "b", " ", "<", "b", "o", "b", "@", "X", "-", "y", ".", "o", "r", "g">>
X_no_host == <<"<", "a", "@", "_", "b", ">", " ", "c", "@", "d", ".", "c", "o">>
D_example_com == <<"e", "x", "a", "m", "p", "l", "e", ".", "c", "o", "m">>
AddrExamples == {X_Name_user, X_not_an_address, X_user_at, X_two_addresses,
                 X_unbalanced, X_no_host}
AddrChars == {"<", ">", "@", " ", "a", "B", ".", "_"}
AddrTexts == UNION { [1..n -> AddrChars] : n \in 0..MaxAddrLen }
DomainInputs == {PyNone} \cup { PyStr(t) : t \in AddrTexts \cup AddrExamples }

\* lines 15-25: one call of extract_domain
CallExtractDomain ==
    /\ command = "none"
    /\ \E addr \in DomainInputs :
        /\ command' = "extract_domain"
        /\ email_addr' = addr
        /\ returned' = extract_domain(addr).value
        /\ raised' = extract_domain(addr).raised
    /\ UNCHANGED <<emails, filters, pattern, case_sensitive, results,
                   output_written, error_printed, exit_code, cfgVars, agVars,
                   store_exists, store, store_read, rows, profile,
                   output_format, exception,
                   cliVars, wfVars, adVars>>

NextDomain == CallExtractDomain

SpecDomain == Init /\ [][NextDomain]_vars

(***************************************************************************)
(* C13: extract_domain returns `unknown` for empty input; otherwise it     *)
(* takes the first substring that is an angle-bracket-delimited address or *)
(* a bare local@host token and returns the lower-cased run of              *)
(* alphanumerics, dots and hyphens that follows `@` in it, or `malformed`  *)
(* when there is no token or no such run; `Name <user@Example.COM>` gives  *)
(* `example.com`, `not an address` and `user@` give `malformed`.           *)
(***************************************************************************)
DomainRan == command = "extract_domain"

Delimiter(c) == c \in Whitespace \cup {"<", ">"}

\* s[i..j] is "<", text without ">", ">"
BracketToken(s, i, j) ==
    /\ s[i] = "<"
    /\ s[j] = ">"
    /\ j > i + 1
    /\ \A k \in (i + 1)..(j - 1) : s[k] # ">"

\* s[i..j] holds no delimiter, ends where a delimiter or the end of s
\* follows, and has an "@" strictly inside
BareToken(s, i, j) ==
    /\ \A k \in i..j : ~Delimiter(s[k])
    /\ j = Len(s) \/ Delimiter(s[j + 1])
    /\ \E k \in (i + 1)..(j - 1) : s[k] = "@"

TokenSpans(s) ==
    { sp \in (1..Len(s)) \X (1..Len(s)) :
        BracketToken(s, sp[1], sp[2]) \/ BareToken(s, sp[1], sp[2]) }

FirstSpan(s) ==
    CHOOSE sp \in TokenSpans(s) : \A other \in TokenSpans(s) : sp[1] <= other[1]

\* the address of the first token: what the brackets hold, or the bare token
FirstToken(s) ==
    LET sp == FirstSpan(s) IN
    IF s[sp[1]] = "<" THEN SubSeq(s, sp[1] + 1, sp[2] - 1)
    ELSE SubSeq(s, sp[1], sp[2])

\* the positions of an "@" that a host character follows
HostStarts(t) == { k \in 1..(Len(t) - 1) : t[k] = "@" /\ t[k + 1] \in HostChars }

\* the whole run of host characters after the first such "@"
HostRun(t) ==
    LET k == CHOOSE a \in HostStarts(t) : \A b \in HostStarts(t) : a <= b
        e == CHOOSE last \in (k + 1)..Len(t) :
                /\ \A m \in (k + 1)..last : t[m] \in HostChars
                /\ last = Len(t) \/ t[last + 1] \notin HostChars
    IN  SubSeq(t, k + 1, e)

DomainOf(addr) ==
    IF addr.is_none \/ addr.str = <<>> THEN W_unknown
    ELSE IF TokenSpans(addr.str) = {} THEN W_malformed
    ELSE IF HostStarts(FirstToken(addr.str)) = {} THEN W_malformed
    ELSE Lower(HostRun(FirstToken(addr.str)))

C13_DomainOfFirstAddress ==
    DomainRan
        => /\ returned = DomainOf(email_addr)
           /\ email_addr = PyStr(X_Name_user) => returned = D_example_com
           /\ email_addr = PyStr(X_not_an_address) => returned = W_malformed
           /\ email_addr = PyStr(X_user_at) => returned = W_malformed
           /\ email_addr = PyStr(Empty) => returned = W_unknown

\* the display-name header with an upper-case host was parsed
C13_Witness ==
    /\ DomainRan
    /\ email_addr = PyStr(X_Name_user)
    /\ returned = D_example_com

(***************************************************************************)
(* C14: extract_domain is total: for every input (empty, None, garbage,    *)
(* unbalanced angle brackets, several addresses) it returns without        *)
(* raising, and what it returns is `unknown`, `malformed` or a non-empty   *)
(* lower-case domain string.                                               *)
(***************************************************************************)
LowerCaseDomain(text) ==
    /\ text # <<>>
    /\ \A i \in 1..Len(text) : text[i] \in HostChars /\ text[i] \notin DOMAIN LowerOf

C14_ExtractDomainTotal ==
    DomainRan
        => /\ ~raised
           /\ returned \in {W_unknown, W_malformed} \/ LowerCaseDomain(returned)

\* a header whose angle bracket never closes still gave its domain
D_x_y_org == <<"x", "-", "y", ".", "o", "r", "g">>

C14_Witness ==
    /\ DomainRan
    /\ email_addr = PyStr(X_unbalanced)
    /\ ~raised
    /\ returned = D_x_y_org

\* None and a header with two addresses were handled
C14_NoneIsUnknown == DomainRan /\ email_addr = PyNone /\ returned = W_unknown
D_b_co == <<"b", ".", "c", "o">>
C14_FirstOfTwo == DomainRan /\ email_addr = PyStr(X_two_addresses) /\ returned = D_b_co

(***************************************************************************)
(* The Gloda store read by tm.py extract_complete_dataset.                 *)
(***************************************************************************)
MaxMessages == 2

\* an INTEGER column: NULL or a number
SqlNull == [is_null |-> TRUE, int |-> 0]
SqlInt(n) == [is_null |-> FALSE, int |-> n]

M_abc == <<"a", "b", "c">>
M_br_abc == <<"<", "a", "b", "c", ">">>
M_open_abc == <<"<", "a", "b", "c">>
X_Bob == <<"B", "o", "b", " ", "<", "b", "o", "b", "@", "X", ".", "o", "r", "g", ">">>
X_BOB == <<"B", "O", "B", " ", "<", "B", "O", "B", "@", "x", ".", "O", "R", "G", ">">>
D_x_org == <<"x", ".", "o", "r", "g">>

\* a row of messagesText_content, or its absence
ContentRow(c3author, c4recipients, c1subject, c0body) ==
    [present |-> TRUE, c3author |-> c3author, c4recipients |-> c4recipients,
     c1subject |-> c1subject, c0body |-> c0body]
NoContentRow ==
    [present |-> FALSE, c3author |-> PyNone, c4recipients |-> PyNone,
     c1subject |-> PyNone, c0body |-> PyNone]

\* a message and the content row indexed under its id, if any; m.date is
\* microseconds since the epoch, here within the first hour of 1970
MessageCase(headerMessageID, date, folderID, content) ==
    [headerMessageID |-> headerMessageID, date |-> date, folderID |-> folderID,
     content |-> content]

MessageCases ==
    { MessageCase(PyStr(M_abc), SqlInt(61000000), SqlInt(1),
                  ContentRow(PyStr(X_Bob), PyStr(A_me), PyStr(S_Hello), PyStr(Empty))),
      MessageCase(PyStr(M_br_abc), SqlInt(0), SqlInt(1),
                  ContentRow(PyStr(X_BOB), PyStr(A_me), PyStr(S_Hello), PyStr(B_hi))),
      MessageCase(PyStr(M_open_abc), SqlInt(999999), SqlInt(9),
                  ContentRow(PyStr(X_Bob), PyStr(A_me), PyStr(S_bye), PyStr(B_hi))),
      MessageCase(PyNone, SqlNull, SqlNull, NoContentRow),
      MessageCase(PyStr(Empty), SqlInt(0), SqlInt(2),
                  ContentRow(PyNone, PyNone, PyNone, PyNone)),
      MessageCase(PyStr(M_abc), SqlNull, SqlInt(1),
                  ContentRow(PyStr(X_not_an_address), PyNone, PyStr(Empty), PyNone)),
      MessageCase(PyStr(M_abc), SqlInt(61000000), SqlNull, NoContentRow),
      MessageCase(PyStr(M_br_abc), SqlInt(999999), SqlInt(1),
                  ContentRow(PyStr(Empty), PyStr(Empty), PyStr(S_Hello), PyStr(B_hi))),
      MessageCase(PyStr(M_abc), SqlInt(2000000000), SqlInt(2),
                  ContentRow(PyStr(X_two_addresses), PyStr(A_me), PyNone, PyStr(Empty))),
      MessageCase(PyNone, SqlInt(61000000), SqlInt(1),
                  ContentRow(PyStr(X_BOB), PyStr(A_me), PyStr(S_bye), PyNone)) }

\* folderLocations: id is the primary key
FolderLocations ==
    { [id |-> 1, name |-> PyStr(F_Inbox)], [id |-> 2, name |-> PyNone] }

\* the three tables that hold the given messages; messages.id and
\* messagesText_content.docid are row ids
StoreOf(cases) ==
    [messages |->
        [i \in 1..Len(cases) |->
            [id |-> i, headerMessageID |-> cases[i].headerMessageID,
             date |-> cases[i].date, folderID |-> cases[i].folderID]],
     messagesText_content |->
        { [docid |-> i, c3author |-> cases[i].content.c3author,
           c4recipients |-> cases[i].content.c4recipients,
           c1subject |-> cases[i].content.c1subject,
           c0body |-> cases[i].content.c0body] :
            i \in { k \in 1..Len(cases) : cases[k].content.present } },
     folderLocations |-> FolderLocations]

Stores == { StoreOf(cases) : cases \in UNION { [1..n -> MessageCases] : n \in 0..MaxMessages } }

(***************************************************************************)
(* tm.py extract_complete_dataset: the query.                              *)
(***************************************************************************)
DigitChars == <<"0", "1", "2", "3", "4", "5", "6", "7", "8", "9">>
TwoDigits(n) == <<DigitChars[(n \div 10) + 1], DigitChars[(n % 10) + 1]>>

\* line 39: datetime(seconds, 'unixepoch') for a time of 1970-01-01
Datetime(seconds) ==
    <<"1", "9", "7", "0", "-", "0", "1", "-", "0", "1", " ">>
        \o TwoDigits(seconds \div 3600) \o <<":">>
        \o TwoDigits((seconds % 3600) \div 60) \o <<":">>
        \o TwoDigits(seconds % 60)

\* line 39: datetime(m.date/1000000, 'unixepoch'); NULL stays NULL
date_formatted(date) ==
    IF date.is_null THEN PyNone ELSE PyStr(Datetime(date.int \div 1000000))

\* the columns a LEFT JOIN supplies when no row matches
NullText ==
    [docid |-> 0, c3author |-> PyNone, c4recipients |-> PyNone,
     c1subject |-> PyNone, c0body |-> PyNone]
NullFolder == [id |-> 0, name |-> PyNone]

\* line 46, were it an inner JOIN
TextsOfInnerJoin(st, m) == { t \in st.messagesText_content : t.docid = m.id }

\* line 46: LEFT JOIN messagesText_content t ON m.id = t.docid
TextsOf(st, m) ==
    LET ts == { t \in st.messagesText_content : t.docid = m.id } IN
    IF ts = {} THEN {NullText} ELSE ts

\* line 47: LEFT JOIN folderLocations fl ON m.folderID = fl.id
FoldersOf(st, m) ==
    LET fls == { fl \in st.folderLocations :
                    ~m.folderID.is_null /\ fl.id = m.folderID.int } IN
    IF fls = {} THEN {NullFolder} ELSE fls

\* lines 37-44: the selected columns, under the names of line 56
Row(m, t, fl) ==
    [msg_id |-> m.headerMessageID, date |-> date_formatted(m.date),
     from_field |-> t.c3author, to_field |-> t.c4recipients,
     subject |-> t.c1subject, body_text |-> t.c0body, folder_path |-> fl.name]

\* lines 45-47: the rows the joins give for one message
JoinedRows(st, m) == { Row(m, t, fl) : t \in TextsOf(st, m), fl \in FoldersOf(st, m) }

RECURSIVE SeqOfSet(_)
SeqOfSet(set) ==
    IF set = {} THEN <<>>
    ELSE LET x == CHOOSE y \in set : TRUE IN <<x>> \o SeqOfSet(set \ {x})

\* line 48: ORDER BY m.date DESC puts NULL after every date and leaves the
\* order of equal dates to SQLite: any permutation of the messages that
\* never puts a smaller date first
DateKey(date) == IF date.is_null THEN -1 ELSE date.int
RowOrders(n) == { p \in [1..n -> 1..n] : \A i, j \in 1..n : p[i] = p[j] => i = j }
OrderByDateDesc(st) ==
    { p \in RowOrders(Len(st.messages)) :
        \A i, j \in 1..Len(st.messages) :
            i < j => DateKey(st.messages[p[i]].date) >= DateKey(st.messages[p[j]].date) }

RECURSIVE Fetchall(_, _, _)
\* lines 52-53: cursor.fetchall(), the messages taken in order p from the k-th
Fetchall(st, p, k) ==
    IF k > Len(p) THEN <<>>
    ELSE SeqOfSet(JoinedRows(st, st.messages[p[k]])) \o Fetchall(st, p, k + 1)

(***************************************************************************)
(* tm.py extract_complete_dataset: the records, and the extract command.   *)
(***************************************************************************)
\* `value or ''` and bool(value) of a value that is None or a str
Or(value) == IF value.is_none THEN <<>> ELSE value.str
Bool(value) == ~value.is_none /\ value.str # <<>>

\* line 58
MessageId(msg_id) ==
    IF Bool(msg_id) /\ ~StartsWith(msg_id.str, <<"<">>)
        THEN <<"<">> \o msg_id.str \o <<">">>
    ELSE Or(msg_id)

\* line 61, were the domain returned as written in the header
FromDomainKeepingCase(from_field) ==
    LET match == AddressSearch(Or(from_field), 1) IN
    IF Or(from_field) = <<>> THEN W_unknown
    ELSE IF match.found THEN DomainKeepingCase(HostSearch(email_clean(match), 1)).value
    ELSE W_malformed

\* line 61
FromDomain(from_field) == extract_domain(PyStr(Or(from_field))).value

\* line 66, were a body that is present counted as a body
HasBodyWhenPresent(body_text) == ~body_text.is_none

\* line 66
HasBody(body_text) == Bool(body_text)

\* lines 57-67; the keys in the order of the dict
Email(row) ==
    [message_id |-> MessageId(row.msg_id),
     date |-> Or(row.date),
     from |-> Or(row.from_field),
     from_domain |-> FromDomain(row.from_field),
     to |-> Or(row.to_field),
     subject |-> Or(row.subject),
     folder |-> Or(row.folder_path),
     body |-> Or(row.body_text),
     has_body |-> HasBody(row.body_text)]

\* output.py lines 73-80: the formats write_data knows
SupportedFormats == {"json", "csv", "yaml"}
OutputFormats == SupportedFormats \cup {"xml"}

\* lines 30-31, were the test left out
StoreMissingIgnored(exists) == FALSE

\* lines 30-31: not db_path.exists()
StoreMissing(exists) == ~exists

\* what extract_complete_dataset leaves behind
Extraction(exc, read, fetched, built, written) ==
    [exception |-> exc, store_read |-> read, rows |-> fetched, emails |-> built,
     written |-> written]

\* lines 27-75, SQLite returning the messages in order p
extract_complete_dataset(exists, st, p, format) ==
    IF StoreMissing(exists)
        THEN Extraction("FileNotFoundError", FALSE, <<>>, <<>>, FALSE)
    ELSE LET fetched == Fetchall(st, p, 1)
             built == [k \in 1..Len(fetched) |-> Email(fetched[k])]
         IN  IF format \in SupportedFormats
                 THEN Extraction("none", TRUE, fetched, built, TRUE)
             ELSE Extraction("ValueError", TRUE, fetched, built, FALSE)

P_assets == <<"a", "s", "s", "e", "t", "s", "/", "p">>

\* a profile directory without global-messages-db.sqlite holds no table
StoresAt(exists) == IF exists THEN Stores ELSE {StoreOf(<<>>)}

\* lines 27-75: extract_complete_dataset called on a profile path
CallExtractCompleteDataset ==
    /\ command = "none"
    /\ \E exists \in BOOLEAN, format \in OutputFormats :
       \E st \in StoresAt(exists) :
       \E p \in OrderByDateDesc(st) :
        LET o == extract_complete_dataset(exists, st, p, format) IN
        /\ command' = "extract_complete_dataset"
        /\ profile' = PyStr(P_assets)
        /\ store_exists' = exists
        /\ store' = st
        /\ output_format' = format
        /\ store_read' = o.store_read
        /\ rows' = o.rows
        /\ emails' = o.emails
        /\ output_written' = o.written
        /\ exception' = o.exception
        /\ raised' = (o.exception # "none")
    /\ UNCHANGED <<filters, pattern, case_sensitive, results, error_printed,
                   exit_code, cfgVars, agVars, email_addr, returned,
                   cliVars, wfVars, adVars>>

\* lines 202-209, 226-228: `tm.py extract`; get_profile_path raises
\* ValueError when neither --profile nor the config names a profile
\* (config.py line 33), and the handler of __main__ turns an exception into
\* "Error:" and exit status 1
MainExtract ==
    /\ command = "none"
    /\ \E prof \in {PyNone, PyStr(P_assets)}, exists \in BOOLEAN,
          format \in OutputFormats :
       \E st \in StoresAt(exists) :
       \E p \in OrderByDateDesc(st) :
        LET o == IF prof.is_none
                     THEN Extraction("ValueError", FALSE, <<>>, <<>>, FALSE)
                 ELSE extract_complete_dataset(exists, st, p, format)
        IN
        /\ command' = "extract"
        /\ profile' = prof
        /\ store_exists' = exists
        /\ store' = st
        /\ output_format' = format
        /\ store_read' = o.store_read
        /\ rows' = o.rows
        /\ emails' = o.emails
        /\ output_written' = o.written
        /\ exception' = o.exception
        /\ raised' = (o.exception # "none")
        /\ error_printed' = (o.exception # "none")
        /\ exit_code' = ExitStatus(o.exception # "none")
    /\ UNCHANGED <<filters, pattern, case_sensitive, results, cfgVars, agVars,
                   email_addr, returned,
                   cliVars, wfVars, adVars>>

NextExtract == MainExtract \/ CallExtractCompleteDataset

SpecExtract == Init /\ [][NextExtract]_vars

(***************************************************************************)
(* C15: from_domain is a pure, case-insensitive function of `from`: every  *)
(* extracted record has from_domain = extract_domain(from); records with   *)
(* the same `from` have the same from_domain; and records whose `from`     *)
(* differ only in letter case have the same from_domain.                   *)
(***************************************************************************)
ExtractRan == command \in {"extract", "extract_complete_dataset"}
Records == 1..Len(emails)

C15_FromDomainFunctionOfFrom ==
    ExtractRan
        => /\ \A i \in Records : emails[i].from_domain = DomainOf(PyStr(emails[i].from))
           /\ \A i, j \in Records :
                emails[i].from = emails[j].from
                    => emails[i].from_domain = emails[j].from_domain
           /\ \A i, j \in Records :
                Lower(emails[i].from) = Lower(emails[j].from)
                    => emails[i].from_domain = emails[j].from_domain

\* two records whose senders differ in letter case only got one domain
C15_Witness ==
    /\ ExtractRan
    /\ \E i, j \in Records :
        /\ emails[i].from = X_Bob
        /\ emails[j].from = X_BOB
        /\ emails[i].from_domain = D_x_org
        /\ emails[j].from_domain = D_x_org

(***************************************************************************)
(* C16: every record emitted by extract_complete_dataset has has_body true *)
(* iff its body is a non-empty string, whether the store's content is      *)
(* absent, NULL, empty or non-empty.                                       *)
(***************************************************************************)
C16_HasBodyIffBodyNonEmpty ==
    ExtractRan => \A i \in Records : emails[i].has_body <=> emails[i].body # <<>>

\* a row with an empty body and a row with a body were both extracted
C16_Witness ==
    /\ ExtractRan
    /\ \E i, j \in Records :
        /\ rows[i].body_text = PyStr(Empty)
        /\ ~emails[i].has_body
        /\ rows[j].body_text = PyStr(B_hi)
        /\ emails[j].has_body

\* a row without content was extracted
C16_NullBody ==
    /\ ExtractRan
    /\ \E i \in Records : rows[i].body_text = PyNone /\ ~emails[i].has_body

(***************************************************************************)
(* C17: every record emitted by extract_complete_dataset has a message_id  *)
(* that is empty or begins with `<` and ends with `>`, whatever the        *)
(* store's headerMessageID is.                                             *)
(***************************************************************************)
AngleBracketDelimited(text) ==
    /\ Len(text) >= 2
    /\ text[1] = "<"
    /\ text[Len(text)] = ">"

C17_MessageIdDelimited ==
    ExtractRan
        => \A i \in Records :
            emails[i].message_id = <<>> \/ AngleBracketDelimited(emails[i].message_id)

(***************************************************************************)
(* C18: when global-messages-db.sqlite is absent at the profile path,      *)
(* extract_complete_dataset raises the store-not-found error before it     *)
(* reads the store or writes anything: no row is fetched, no dataset is    *)
(* written, and the extract command prints `Error:` and exits non-zero.    *)
(***************************************************************************)
StoreAbsent == ExtractRan /\ ~profile.is_none /\ ~store_exists

C18_StoreNotFoundIsFatal ==
    StoreAbsent
        => /\ exception = "FileNotFoundError"
           /\ raised
           /\ ~store_read
           /\ rows = <<>>
           /\ ~output_written
           /\ command = "extract" => error_printed /\ exit_code > 0

\* `tm.py extract` met a profile without the store
C18_Witness ==
    /\ StoreAbsent
    /\ command = "extract"
    /\ exception = "FileNotFoundError"
    /\ error_printed
    /\ exit_code = 1

(***************************************************************************)
(* C19: extract_complete_dataset builds exactly one record per message     *)
(* row, in descending-date order: a message without content row or folder  *)
(* row is still emitted, and every scalar field absent from the store      *)
(* (date, from, to, subject, folder, body) is the empty string.            *)
(***************************************************************************)
StoreWasRead == ExtractRan /\ store_read

\* the text of a column of the only row of `found`, empty when there is no
\* row or the column is NULL
TextOr(found, column) ==
    IF found = {} THEN <<>>
    ELSE LET row == CHOOSE r \in found : TRUE IN
         IF row[column].is_none THEN <<>> ELSE row[column].str

ContentOf(m) == { t \in store.messagesText_content : t.docid = m.id }
FolderOf(m) ==
    { fl \in store.folderLocations : ~m.folderID.is_null /\ fl.id = m.folderID.int }

\* record e carries the scalar fields of message m
RecordOf(e, m) ==
    /\ (m.date.is_null <=> e.date = <<>>)
    /\ e.from = TextOr(ContentOf(m), "c3author")
    /\ e.to = TextOr(ContentOf(m), "c4recipients")
    /\ e.subject = TextOr(ContentOf(m), "c1subject")
    /\ e.body = TextOr(ContentOf(m), "c0body")
    /\ e.folder = TextOr(FolderOf(m), "name")

\* m is not dated before n; a message without date comes after every other
NotBefore(m, n) ==
    \/ n.date.is_null
    \/ ~m.date.is_null /\ m.date.int >= n.date.int

C19_OneRecordPerMessage ==
    StoreWasRead
        => /\ Len(emails) = Len(store.messages)
           /\ \E p \in [Records -> Records] :
                /\ \A i, j \in Records : i # j => p[i] # p[j]
                /\ \A i \in Records : RecordOf(emails[i], store.messages[p[i]])
                /\ \A i, j \in Records :
                    i < j => NotBefore(store.messages[p[i]], store.messages[p[j]])

\* a message with neither content row nor folder row was emitted with empty
\* fields, after a dated message with both
C19_Witness ==
    /\ StoreWasRead
    /\ Len(emails) = 2
    /\ \E k \in 1..Len(store.messages) :
        /\ ContentOf(store.messages[k]) = {}
        /\ FolderOf(store.messages[k]) = {}
        /\ store.messages[k].date.is_null
    /\ emails[1].date # <<>>
    /\ emails[1].folder = F_Inbox
    /\ emails[2].date = <<>>
    /\ emails[2].from = <<>>
    /\ emails[2].folder = <<>>
    /\ emails[2].body = <<>>

(***************************************************************************)
(* datetime.strptime(text, "%Y-%m-%d %H:%M:%S"), as the analyzers call it. *)
(***************************************************************************)
DigitClass == [chars |-> Digits, inside |-> TRUE]
SpaceClass == [chars |-> Whitespace, inside |-> TRUE]

\* s[i], or "" beyond the ends of s
At(s, i) == IF i \in 1..Len(s) THEN s[i] ELSE ""

RECURSIVE Number(_, _, _)
\* int(s[i..j]) of a run of digits
Number(s, i, j) ==
    IF j < i THEN 0
    ELSE 10 * Number(s, i, j - 1)
            + ((CHOOSE d \in 1..Len(DigitChars) : DigitChars[d] = s[j]) - 1)

LeapYear(year) == (year % 4 = 0 /\ year % 100 # 0) \/ year % 400 = 0
DaysInMonth(year, month) ==
    IF month = 2 THEN (IF LeapYear(year) THEN 29 ELSE 28)
    ELSE IF month \in {4, 6, 9, 11} THEN 30
    ELSE 31

\* date.weekday(): 0 is Monday; month and day as in the proleptic Gregorian
\* calendar (Sakamoto's congruence, shifted from Sunday-first)
MonthShift == <<0, 3, 2, 5, 0, 3, 5, 1, 4, 6, 2, 4>>
Weekday(year, month, day) ==
    LET y == IF month < 3 THEN year - 1 ELSE year IN
    ((y + (y \div 4) - (y \div 100) + (y \div 400) + MonthShift[month] + day) + 6) % 7

NoDatetime ==
    [ok |-> FALSE, year |-> 0, month |-> 0, day |-> 0, hour |-> 0, minute |-> 0,
     second |-> 0]

AllIn(s, i, j, chars) == \A k \in i..j : At(s, k) \in chars

\* _strptime: %Y is four digits; %m, %d, %H, %M, %S are one or two digits
\* (%d may be a space and one digit); the blank of the format is \s+; and
\* nothing may remain.  Where each field may end, given where the one
\* before it ended:
\* "YYYY-" and the month 6..mE, then "-"
MonthEnds(s) ==
    { mE \in {6, 7} :
        /\ AllIn(s, 1, 4, Digits) /\ At(s, 5) = "-"
        /\ AllIn(s, 6, mE, Digits) /\ At(s, mE + 1) = "-" }

\* the day dS..dE, then a blank
DayFields(s, mE) ==
    { day \in {<<mE + 2, mE + 2>>, <<mE + 2, mE + 3>>, <<mE + 3, mE + 3>>} :
        /\ day[1] = mE + 3 => At(s, mE + 2) = " "
        /\ AllIn(s, day[1], day[2], Digits)
        /\ At(s, day[2] + 1) \in Whitespace }

\* blanks, then the hour from hS
HourStarts(s, dE) ==
    { hS \in (dE + 2)..Len(s) :
        AllIn(s, dE + 1, hS - 1, Whitespace) /\ At(s, hS) \in Digits }

\* the hour hS..hE and the minute (hE + 2)..nE, each before ":"
FieldEnds(s, start) ==
    { e \in {start, start + 1} : AllIn(s, start, e, Digits) /\ At(s, e + 1) = ":" }

\* the second, from start to the end of s
LastField(s, start) ==
    Len(s) \in {start, start + 1} /\ AllIn(s, start, Len(s), Digits)

\* the places of the fields of s: month 6..mE, day dS..dE, hour hS..hE,
\* minute (hE + 2)..nE, second from nE + 2
Layout(mE, dS, dE, hS, hE, nE) ==
    [mE |-> mE, dS |-> dS, dE |-> dE, hS |-> hS, hE |-> hE, nE |-> nE]
Layouts(s) ==
    UNION { UNION { UNION { UNION {
        { Layout(mE, day[1], day[2], hS, hE, nE) :
            nE \in { e \in FieldEnds(s, hE + 2) : LastField(s, e + 2) } }
            : hE \in FieldEnds(s, hS) }
            : hS \in HourStarts(s, day[2]) }
            : day \in DayFields(s, mE) }
            : mE \in MonthEnds(s) }

\* the fields of s under layout l
Fields(s, l) ==
    [ok |-> TRUE, year |-> Number(s, 1, 4), month |-> Number(s, 6, l.mE),
     day |-> Number(s, l.dS, l.dE), hour |-> Number(s, l.hS, l.hE),
     minute |-> Number(s, l.hE + 2, l.nE), second |-> Number(s, l.nE + 2, Len(s))]

\* _strptime takes every field in its range (a second may be 60 or 61), and
\* datetime() then refuses year 0, a day the month does not have and a
\* second above 59: ValueError either way
InRange(d) ==
    /\ d.month \in 1..12
    /\ d.day \in 1..31
    /\ d.hour \in 0..23
    /\ d.minute \in 0..59
    /\ d.second \in 0..61
    /\ d.year >= 1
    /\ d.day <= DaysInMonth(d.year, d.month)
    /\ d.second <= 59

\* datetime.strptime(s, "%Y-%m-%d %H:%M:%S"), NoDatetime when it raises
Strptime(s) ==
    LET parsed == { d \in { Fields(s, l) : l \in Layouts(s) } : InRange(d) }
    IN  IF parsed = {} THEN NoDatetime ELSE CHOOSE d \in parsed : TRUE

\* lines 18-23, were the text parsed whole and not cut at 19 characters
ParseEmailDateWhole(date_str) == Strptime(date_str)

\* analyze_temporal.py lines 18-23 and analyze_spam_keywords.py lines 19-25:
\* strptime(date_str[:19], ...), None when it raises ValueError
parse_email_date(date_str) == Strptime(SliceTo(date_str, 19))

(***************************************************************************)
(* The datasets the analyzers read.                                        *)
(***************************************************************************)
MaxAggEmails == 2

DT_2020_01_15 == <<"2", "0", "2", "0", "-", "0", "1", "-", "1", "5", " ", "1", "0", ":", "3", "0", ":", "0", "0">>
DT_2020_01_20 == <<"2", "0", "2", "0", "-", "0", "1", "-", "2", "0", " ", "1", "0", ":", "0", "5", ":", "0", "0">>
DT_2019_12_31 == <<"2", "0", "1", "9", "-", "1", "2", "-", "3", "1", " ", "2", "3", ":", "5", "9", ":", "5", "9">>
DT_2020_06_01 == <<"2", "0", "2", "0", "-", "0", "6", "-", "0", "1", " ", "0", "8", ":", "0", "0", ":", "0", "0">>
DT_feb_30 == <<"2", "0", "2", "0", "-", "0", "2", "-", "3", "0", " ", "1", "0", ":", "0", "0", ":", "0", "0">>
DT_lax == <<"2", "0", "2", "0", "-", "1", "-", "5", " ", "1", ":", "2", ":", "3">>
DT_zone == <<"2", "0", "2", "1", "-", "0", "3", "-", "0", "1", " ", "0", "0", ":", "0", "0", ":", "0", "0", "+", "0", "0", ":", "0", "0">>
S_Sale_now == <<"S", "a", "l", "e", " ", "n", "o", "w">>
P_sale == <<"s", "a", "l", "e">>

AggRecord(date, subject, body, has_body) ==
    [date |-> date, subject |-> subject, body |-> body, has_body |-> has_body]

AggRecords ==
    { AggRecord(DT_2020_01_15, S_Sale_now, B_unsub, TRUE),
      AggRecord(DT_2020_01_20, S_hello, Empty, FALSE),
      AggRecord(DT_2019_12_31, S_Unsub, B_hi, TRUE),
      AggRecord(Empty, S_Sale, B_hi, TRUE),
      AggRecord(X_not_an_address, S_hello, Empty, FALSE),
      AggRecord(DT_feb_30, S_Unsub, Empty, FALSE),
      AggRecord(DT_lax, S_hello, B_hi, TRUE),
      AggRecord(DT_zone, S_Sale, Empty, FALSE),
      AggRecord(DT_2020_06_01, S_Sale, B_unsub, TRUE) }

AggDatasets == UNION { [1..n -> AggRecords] : n \in 0..MaxAggEmails }

(***************************************************************************)
(* analyzers/analyze_temporal.py.                                          *)
(***************************************************************************)
weekday_names ==
    <<"Monday", "Tuesday", "Wednesday", "Thursday", "Friday", "Saturday", "Sunday">>

RECURSIVE FormatInt(_)
\* str(n) of n >= 0
FormatInt(n) ==
    IF n < 10 THEN <<DigitChars[n + 1]>>
    ELSE FormatInt(n \div 10) \o <<DigitChars[(n % 10) + 1]>>

\* f"{year}-{month:02d}"
MonthKey(year, month) == FormatInt(year) \o <<"-">> \o TwoDigits(month)

\* lines 33, 49, 72, 88: the key of the bucket a parsed date falls in
BucketKey(kind, date_obj) ==
    CASE kind = "year" -> date_obj.year
      [] kind = "month" -> MonthKey(date_obj.year, date_obj.month)
      [] kind = "weekday" ->
            weekday_names[Weekday(date_obj.year, date_obj.month, date_obj.day) + 1]
      [] kind = "hour" -> date_obj.hour

\* data[key], a defaultdict
BucketOf(data, key, default) == IF key \in DOMAIN data THEN data[key] ELSE default

\* data with data[key] = bucket
WithBucket(data, key, bucket) ==
    [k \in DOMAIN data \cup {key} |-> IF k = key THEN bucket ELSE data[k]]

RECURSIVE Tally(_, _, _, _, _)
\* lines 26-93: the loop of analyze_by_year, analyze_by_month (the only one
\* that reads `year`), analyze_by_weekday and analyze_by_hour, from the k-th
\* record
Tally(kind, year, es, k, data) ==
    IF k > Len(es) THEN data
    ELSE LET date_obj == parse_email_date(es[k].date)
             counted == /\ date_obj.ok
                        /\ kind = "month" => (year.is_none \/ date_obj.year = year.int)
             key == BucketKey(kind, date_obj)
             old == BucketOf(data, key, [total |-> 0, with_body |-> 0])
             new == [total |-> old.total + 1,
                     with_body |-> old.with_body + (IF es[k].has_body THEN 1 ELSE 0)]
         IN  Tally(kind, year, es, k + 1,
                   IF counted THEN WithBucket(data, key, new) ELSE data)

analyze_by_year(es) == Tally("year", NoInt, es, 1, <<>>)
analyze_by_month(es, year) == Tally("month", year, es, 1, <<>>)
analyze_by_weekday(es) == Tally("weekday", NoInt, es, 1, <<>>)
analyze_by_hour(es) == Tally("hour", NoInt, es, 1, <<>>)

\* a float quotient count / total * 100, kept exact as numerator and
\* denominator; division by zero raises ZeroDivisionError
Percent(count, total) ==
    [zero_division |-> total = 0, num |-> count * 100, den |-> total]
ZeroPercent == [zero_division |-> FALSE, num |-> 0, den |-> 1]

\* lines 139-143, 154-158, 178-182, 194-198
body_percentage(data) ==
    IF data.total > 0 THEN Percent(data.with_body, data.total) ELSE ZeroPercent

\* the order of sorted(results.items()): numbers by value, month keys as str
KeyLess(kind, a, b) == IF kind = "month" THEN StrLess(a, b) ELSE a < b

RECURSIVE SortedKeys(_, _)
SortedKeys(kind, keys) ==
    IF keys = {} THEN <<>>
    ELSE LET first == CHOOSE a \in keys : \A b \in keys \ {a} : KeyLess(kind, a, b)
         IN  <<first>> \o SortedKeys(kind, keys \ {first})

\* lines 163-171
weekday_order ==
    <<"Monday", "Tuesday", "Wednesday", "Thursday", "Friday", "Saturday", "Sunday">>

\* lines 132-201: one entry of analysis_data; `key` stands for the entry's
\* first key, which is "year", "month", "weekday" or "hour"
Entry(key, data) ==
    [key |-> key, total_emails |-> data.total, emails_with_body |-> data.with_body,
     body_percentage |-> body_percentage(data)]

\* lines 132-201: analysis_data of --analysis year, month, weekday or hour
Entries(kind, buckets) ==
    LET order == IF kind = "weekday"
                     THEN SelectSeq(weekday_order, LAMBDA day : day \in DOMAIN buckets)
                 ELSE SortedKeys(kind, DOMAIN buckets)
    IN  [i \in 1..Len(order) |-> Entry(order[i], buckets[order[i]])]

\* datetime < datetime
DatetimeLess(a, b) ==
    LET ta == <<a.year, a.month, a.day, a.hour, a.minute, a.second>>
        tb == <<b.year, b.month, b.day, b.hour, b.minute, b.second>>
    IN  \E k \in 1..6 : (\A i \in 1..(k - 1) : ta[i] = tb[i]) /\ ta[k] < tb[k]

\* datetime.isoformat() of a datetime without microseconds
Isoformat(d) ==
    TwoDigits(d.year \div 100) \o TwoDigits(d.year % 100) \o <<"-">>
        \o TwoDigits(d.month) \o <<"-">> \o TwoDigits(d.day) \o <<"T">>
        \o TwoDigits(d.hour) \o <<":">> \o TwoDigits(d.minute) \o <<":">>
        \o TwoDigits(d.second)

\* lines 96-106 and 212-213: the isoformat of the smallest (largest = FALSE)
\* or largest parsed date, None when no date parses
DateRangeEnd(es, largest) ==
    LET dates == { parse_email_date(es[i].date) : i \in 1..Len(es) } \ {NoDatetime} IN
    IF dates = {} THEN PyNone
    ELSE PyStr(Isoformat(
            CHOOSE d \in dates : \A other \in dates \ {d} :
                IF largest THEN DatetimeLess(other, d) ELSE DatetimeLess(d, other)))

\* lines 203-219
Summary(es) ==
    [dataset_info |->
        [total_emails |-> Len(es),
         emails_with_body |-> Len(SelectSeq(es, LAMBDA e : e.has_body)),
         date_range |-> [start |-> DateRangeEnd(es, FALSE), end |-> DateRangeEnd(es, TRUE)]],
     by_year |-> analyze_by_year(es),
     by_weekday |-> analyze_by_weekday(es)]

\* lines 131-219: analysis_data
AnalysisData(kind, year, es) ==
    CASE kind = "year" -> Entries(kind, analyze_by_year(es))
      [] kind = "month" -> Entries(kind, analyze_by_month(es, year))
      [] kind = "weekday" -> Entries(kind, analyze_by_weekday(es))
      [] kind = "hour" -> Entries(kind, analyze_by_hour(es))
      [] kind = "summary" -> Summary(es)

AnalysisKinds == {"year", "month", "weekday", "hour", "summary"}
YearArgs == {NoInt, PyInt(2020)}

\* a percentage of the entries could not be computed
EntriesDivideByZero(kind, data) ==
    /\ kind # "summary"
    /\ \E i \in 1..Len(data) : data[i].body_percentage.zero_division

\* lines 109-254: analyze_temporal.py run on a dataset file; nothing catches
\* an exception, so one ends the process with a traceback and status 1;
\* with --output the data goes through write_data, which knows three formats
TemporalMain ==
    /\ command = "none"
    /\ \E es \in AggDatasets, kind \in AnalysisKinds, year \in YearArgs,
          format \in OutputFormats \cup {"none"} :
        LET data == AnalysisData(kind, year, es)
            error == IF EntriesDivideByZero(kind, data) THEN "ZeroDivisionError"
                     ELSE IF format \notin SupportedFormats \cup {"none"} THEN "ValueError"
                     ELSE "none"
        IN
        /\ command' = "analyze_temporal"
        /\ emails' = es
        /\ analysis' = kind
        /\ year_arg' = year
        /\ output_format' = format
        /\ analysis_data' = IF error = "ZeroDivisionError" THEN <<>> ELSE data
        /\ output_written' = (error = "none" /\ format # "none")
        /\ exception' = error
        /\ raised' = (error # "none")
        /\ exit_code' = IF error # "none" THEN 1 ELSE 0
    /\ UNCHANGED <<filters, pattern, case_sensitive, results, error_printed,
                   cfgVars, email_addr, returned, store_exists, store,
                   store_read, rows, profile, keyword_patterns,
                   cliVars, wfVars, adVars>>

(***************************************************************************)
(* analyzers/analyze_spam_keywords.py.                                     *)
(***************************************************************************)
\* keyword_patterns, a dict in insertion order; its patterns compile
Keyword(name, regex) == [name |-> name, pattern |-> regex]
KeywordPatternSets ==
    { <<>>,
      <<Keyword("unsubscribe_bait", P_unsub)>>,
      <<Keyword("unsubscribe_bait", P_unsub), Keyword("sale", P_sale)>>,
      <<Keyword("sale", P_sale), Keyword("initials", P_u_dot_s)>> }

\* lines 28-39: the names of the patterns found in "subject body"
check_spam_keywords(e, patterns) ==
    LET combined_text == Lower(e.subject) \o <<" ">> \o Lower(e.body)
        found == SelectSeq(patterns, LAMBDA kw : Search(kw.pattern, combined_text, TRUE))
    IN  [i \in 1..Len(found) |-> found[i].name]

\* lines 45-52, 55-62: the default of a bucket
NewSpamBucket ==
    [total_emails |-> 0, spam_emails |-> 0, keyword_matches |-> <<>>,
     spam_percentage |-> ZeroPercent]

RECURSIVE CountKeywords(_, _, _)
\* lines 87-89: keyword_matches[keyword] += 1 for each match from the k-th
CountKeywords(counts, matches, k) ==
    IF k > Len(matches) THEN counts
    ELSE CountKeywords(WithBucket(counts, matches[k], BucketOf(counts, matches[k], 0) + 1),
                       matches, k + 1)

\* lines 73-74, 81-89, were spam_emails incremented in the loop over the matches
CountedPerKeyword(bucket, matches) ==
    [total_emails |-> bucket.total_emails + 1,
     spam_emails |-> bucket.spam_emails + Len(matches),
     keyword_matches |-> CountKeywords(bucket.keyword_matches, matches, 1),
     spam_percentage |-> bucket.spam_percentage]

\* lines 73-74, 81-89: one record counted in its bucket
Counted(bucket, matches) ==
    [total_emails |-> bucket.total_emails + 1,
     spam_emails |-> bucket.spam_emails + (IF matches # <<>> THEN 1 ELSE 0),
     keyword_matches |-> CountKeywords(bucket.keyword_matches, matches, 1),
     spam_percentage |-> bucket.spam_percentage]

SpamCounts(monthly, yearly, processed, spam) ==
    [monthly_data |-> monthly, yearly_data |-> yearly, total_processed |-> processed,
     total_spam |-> spam]

RECURSIVE SpamTallyYearPerKeyword(_, _, _, _)
\* lines 67-89, were line 84 inside the loop of lines 88-90: the year counts
\* a spam record once per matching keyword, the month once
SpamTallyYearPerKeyword(es, patterns, k, acc) ==
    IF k > Len(es) THEN acc
    ELSE LET dt == parse_email_date(es[k].date)
             month_key == MonthKey(dt.year, dt.month)
             spam_matches == check_spam_keywords(es[k], patterns)
         IN  IF ~dt.ok THEN SpamTallyYearPerKeyword(es, patterns, k + 1, acc)
             ELSE SpamTallyYearPerKeyword(es, patterns, k + 1,
                    SpamCounts(
                        WithBucket(acc.monthly_data, month_key,
                            Counted(BucketOf(acc.monthly_data, month_key, NewSpamBucket),
                                    spam_matches)),
                        WithBucket(acc.yearly_data, dt.year,
                            CountedPerKeyword(
                                BucketOf(acc.yearly_data, dt.year, NewSpamBucket),
                                spam_matches)),
                        acc.total_processed + 1,
                        acc.total_spam + (IF spam_matches # <<>> THEN 1 ELSE 0)))

RECURSIVE SpamTally(_, _, _, _)
\* lines 67-89: the loop over the records, from the k-th; a record whose
\* date does not parse is skipped
SpamTally(es, patterns, k, acc) ==
    IF k > Len(es) THEN acc
    ELSE LET dt == parse_email_date(es[k].date)
             month_key == MonthKey(dt.year, dt.month)
             spam_matches == check_spam_keywords(es[k], patterns)
         IN  IF ~dt.ok THEN SpamTally(es, patterns, k + 1, acc)
             ELSE SpamTally(es, patterns, k + 1,
                    SpamCounts(
                        WithBucket(acc.monthly_data, month_key,
                            Counted(BucketOf(acc.monthly_data, month_key, NewSpamBucket),
                                    spam_matches)),
                        WithBucket(acc.yearly_data, dt.year,
                            Counted(BucketOf(acc.yearly_data, dt.year, NewSpamBucket),
                                    spam_matches)),
                        acc.total_processed + 1,
                        acc.total_spam + (IF spam_matches # <<>> THEN 1 ELSE 0)))

\* lines 92-99: spam_percentage of every bucket that counted a record
WithSpamPercentage(data) ==
    [key \in DOMAIN data |->
        IF data[key].total_emails > 0
            THEN [data[key] EXCEPT
                    !.spam_percentage = Percent(data[key].spam_emails, data[key].total_emails)]
        ELSE data[key]]

\* lines 105-107, were the quotient taken without the test
OverallSpamPercentageUnguarded(total_spam, total_processed) ==
    Percent(total_spam, total_processed)

\* lines 105-107
overall_spam_percentage(total_spam, total_processed) ==
    IF total_processed > 0 THEN Percent(total_spam, total_processed) ELSE ZeroPercent

\* lines 42-112
analyze_spam_keywords(es, patterns) ==
    LET acc == SpamTally(es, patterns, 1, SpamCounts(<<>>, <<>>, 0, 0)) IN
    [summary |->
        [total_emails_analyzed |-> acc.total_processed,
         total_spam_emails |-> acc.total_spam,
         overall_spam_percentage |->
            overall_spam_percentage(acc.total_spam, acc.total_processed),
         keyword_patterns |-> patterns],
     by_month |-> WithSpamPercentage(acc.monthly_data),
     by_year |-> WithSpamPercentage(acc.yearly_data)]

\* a percentage of the spam analysis could not be computed
SpamDividesByZero(data) ==
    \/ data.summary.overall_spam_percentage.zero_division
    \/ \E key \in DOMAIN data.by_month : data.by_month[key].spam_percentage.zero_division
    \/ \E key \in DOMAIN data.by_year : data.by_year[key].spam_percentage.zero_division

\* lines 42-112: analyze_spam_keywords called on a loaded dataset
CallAnalyzeSpamKeywords ==
    /\ command = "none"
    /\ \E es \in AggDatasets, patterns \in KeywordPatternSets :
        LET data == analyze_spam_keywords(es, patterns) IN
        /\ command' = "analyze_spam_keywords"
        /\ emails' = es
        /\ analysis' = "spam"
        /\ keyword_patterns' = patterns
        /\ analysis_data' = IF SpamDividesByZero(data) THEN <<>> ELSE data
        /\ exception' = IF SpamDividesByZero(data) THEN "ZeroDivisionError" ELSE "none"
        /\ raised' = SpamDividesByZero(data)
    /\ UNCHANGED <<filters, pattern, case_sensitive, results, output_written,
                   error_printed, exit_code, cfgVars, email_addr, returned,
                   store_exists, store, store_read, rows, profile, output_format,
                   year_arg,
                   cliVars, wfVars, adVars>>

NextAggregate == TemporalMain \/ CallAnalyzeSpamKeywords

SpecAggregate == Init /\ [][NextAggregate]_vars

(***************************************************************************)
(* C20: no percentage of the aggregation divides by zero: body_percentage  *)
(* of each year, month, weekday and hour entry, spam_percentage of each    *)
(* month and year bucket and overall_spam_percentage are 0 when their      *)
(* total is 0 and count / total x 100 otherwise, for every dataset, the    *)
(* empty one included.                                                     *)
(***************************************************************************)
\* percentage p is the share of count in total, in percent: 0 of nothing
IsShare(p, count, total) ==
    /\ ~p.zero_division
    /\ p.den # 0
    /\ IF total = 0 THEN p.num = 0 ELSE p.num * total = count * 100 * p.den

TemporalEntriesBuilt == command = "analyze_temporal" /\ analysis # "summary"
SpamAnalysed == command = "analyze_spam_keywords"

C20_PercentagesNeverDivideByZero ==
    /\ (TemporalEntriesBuilt \/ SpamAnalysed) => exception # "ZeroDivisionError"
    /\ TemporalEntriesBuilt =>
        \A i \in 1..Len(analysis_data) :
            IsShare(analysis_data[i].body_percentage,
                    analysis_data[i].emails_with_body, analysis_data[i].total_emails)
    /\ SpamAnalysed =>
        /\ IsShare(analysis_data.summary.overall_spam_percentage,
                   analysis_data.summary.total_spam_emails,
                   analysis_data.summary.total_emails_analyzed)
        /\ \A key \in DOMAIN analysis_data.by_month :
            IsShare(analysis_data.by_month[key].spam_percentage,
                    analysis_data.by_month[key].spam_emails,
                    analysis_data.by_month[key].total_emails)
        /\ \A key \in DOMAIN analysis_data.by_year :
            IsShare(analysis_data.by_year[key].spam_percentage,
                    analysis_data.by_year[key].spam_emails,
                    analysis_data.by_year[key].total_emails)

\* no record of the dataset has a date that parses: nothing was analysed and
\* the overall percentage is 0
C20_Witness ==
    /\ SpamAnalysed
    /\ emails # <<>>
    /\ analysis_data.summary.total_emails_analyzed = 0
    /\ analysis_data.summary.overall_spam_percentage = ZeroPercent
    /\ ~raised

\* the empty dataset was analysed
C20_EmptyDataset ==
    /\ SpamAnalysed
    /\ emails = <<>>
    /\ analysis_data.summary.overall_spam_percentage = ZeroPercent

\* a month with two records, one of them with a body, reports 50 percent
C20_HalfWithBody ==
    /\ TemporalEntriesBuilt
    /\ analysis = "month"
    /\ \E i \in 1..Len(analysis_data) :
        /\ analysis_data[i].total_emails = 2
        /\ analysis_data[i].emails_with_body = 1
        /\ analysis_data[i].body_percentage = [zero_division |-> FALSE, num |-> 100, den |-> 2]

(***************************************************************************)
(* C21: in the spam analysis a record with a parseable date adds one to    *)
(* spam_emails of its month and of its year when at least one keyword      *)
(* pattern matches it, however many match, and one to the counter of each  *)
(* matching keyword; so in every bucket spam_emails <= total_emails, each  *)
(* keyword counter <= spam_emails and the counters sum to >= spam_emails.  *)
(***************************************************************************)
\* the parsed date of a record
DateOf(e) == Strptime(SliceTo(e.date, 19))

\* the positions of the records of the dataset whose date parses
Dated(es) == { i \in 1..Len(es) : DateOf(es[i]).ok }

\* the names of the keywords found in the subject or the body of a record
MatchingKeywords(e, patterns) ==
    { patterns[j].name : j \in
        { j \in 1..Len(patterns) :
            Search(patterns[j].pattern, Lower(e.subject) \o <<" ">> \o Lower(e.body), TRUE) } }

\* the dated records of a month ("month") or of a year ("year")
RecordsOfBucket(es, grouping, key) ==
    { i \in Dated(es) :
        IF grouping = "month"
            THEN MonthKey(DateOf(es[i]).year, DateOf(es[i]).month) = key
        ELSE DateOf(es[i]).year = key }

RECURSIVE SumOver(_, _)
\* the sum of f[k] over the keys k
SumOver(f, keys) ==
    IF keys = {} THEN 0
    ELSE LET k == CHOOSE k \in keys : TRUE IN f[k] + SumOver(f, keys \ {k})

\* a bucket counts its records once each, and each keyword once per record
BucketCountsOnce(es, patterns, grouping, key, bucket) ==
    LET members == RecordsOfBucket(es, grouping, key)
        spam == { i \in members : MatchingKeywords(es[i], patterns) # {} }
        counters == bucket.keyword_matches
    IN  /\ bucket.total_emails = Cardinality(members)
        /\ bucket.spam_emails = Cardinality(spam)
        /\ \A j \in 1..Len(patterns) :
            BucketOf(counters, patterns[j].name, 0) =
                Cardinality({ i \in members :
                                patterns[j].name \in MatchingKeywords(es[i], patterns) })
        /\ bucket.spam_emails <= bucket.total_emails
        /\ \A name \in DOMAIN counters : counters[name] <= bucket.spam_emails
        /\ SumOver(counters, DOMAIN counters) >= bucket.spam_emails

SpamReturned == SpamAnalysed /\ ~raised

C21_SpamCountedOncePerRecord ==
    SpamReturned =>
        /\ \A key \in DOMAIN analysis_data.by_month :
            BucketCountsOnce(emails, keyword_patterns, "month", key,
                             analysis_data.by_month[key])
        /\ \A key \in DOMAIN analysis_data.by_year :
            BucketCountsOnce(emails, keyword_patterns, "year", key,
                             analysis_data.by_year[key])

\* a record matched two keywords: its month counts one spam record and two
\* keyword matches
C21_Witness ==
    /\ SpamReturned
    /\ \E key \in DOMAIN analysis_data.by_month :
        LET bucket == analysis_data.by_month[key] IN
        /\ bucket.spam_emails = 1
        /\ bucket.total_emails = 2
        /\ SumOver(bucket.keyword_matches, DOMAIN bucket.keyword_matches) = 2

(***************************************************************************)
(* C22: a record whose date does not parse is left out of the temporal     *)
(* aggregations and the run goes on: the bucket totals by year, weekday,   *)
(* hour and unfiltered month, and total_emails_analyzed of the spam        *)
(* analysis, add up to the number of records whose date parses, while      *)
(* total_emails and emails_with_body of the summary count every record.    *)
(***************************************************************************)
\* the dataset holds a record whose date does not parse
SomeDateUnparseable == Dated(emails) # 1..Len(emails)

\* the entries of a temporal analysis that counts the records of every year
UnfilteredEntriesBuilt ==
    /\ TemporalEntriesBuilt
    /\ analysis = "month" => year_arg.is_none

SummaryBuilt == command = "analyze_temporal" /\ analysis = "summary"

\* the sum of the totals of the buckets of analyze_by_year or _weekday
BucketTotals(buckets) ==
    SumOver([key \in DOMAIN buckets |-> buckets[key].total], DOMAIN buckets)

C22_UnparseableDatesSkipped ==
    /\ (command = "analyze_temporal" /\ raised) =>
        (exception = "ValueError" /\ output_format \notin SupportedFormats)
    /\ SpamAnalysed => ~raised
    /\ UnfilteredEntriesBuilt =>
        SumOver([i \in 1..Len(analysis_data) |-> analysis_data[i].total_emails],
                1..Len(analysis_data)) = Cardinality(Dated(emails))
    /\ SummaryBuilt =>
        /\ analysis_data.dataset_info.total_emails = Len(emails)
        /\ analysis_data.dataset_info.emails_with_body =
            Cardinality({ i \in 1..Len(emails) : emails[i].has_body })
        /\ BucketTotals(analysis_data.by_year) = Cardinality(Dated(emails))
        /\ BucketTotals(analysis_data.by_weekday) = Cardinality(Dated(emails))
    /\ SpamAnalysed =>
        analysis_data.summary.total_emails_analyzed = Cardinality(Dated(emails))

\* of two records one has a date that parses: the years count one record
C22_Witness ==
    /\ UnfilteredEntriesBuilt
    /\ analysis = "year"
    /\ ~raised
    /\ Len(emails) = 2
    /\ SomeDateUnparseable
    /\ Len(analysis_data) = 1
    /\ analysis_data[1].total_emails = 1

\* the summary of a dataset with an unparseable date counts both records
C22_SummaryCountsEveryRecord ==
    /\ SummaryBuilt
    /\ SomeDateUnparseable
    /\ analysis_data.dataset_info.total_emails = 2
    /\ BucketTotals(analysis_data.by_year) = 1

(***************************************************************************)
(* C29: in the result of analyze_spam_keywords the months and the years    *)
(* agree: total_emails, spam_emails and every keyword counter of a year    *)
(* are the sums over the months `Y-MM` of that year, and                   *)
(* total_emails_analyzed and total_spam_emails of the summary are the sums *)
(* over the years.                                                         *)
(***************************************************************************)
\* the keys `Y-MM` of by_month that belong to year
MonthsOfYear(by_month, year) ==
    { key \in DOMAIN by_month : \E month \in 1..12 : key = MonthKey(year, month) }

\* the names of the keywords counted in some bucket
CountedKeywords(data) ==
    UNION { DOMAIN data[key].keyword_matches : key \in DOMAIN data }

\* the year bucket is the sum of its month buckets
YearIsSumOfMonths(by_month, year, bucket) ==
    LET months == MonthsOfYear(by_month, year) IN
    /\ bucket.total_emails =
        SumOver([key \in months |-> by_month[key].total_emails], months)
    /\ bucket.spam_emails =
        SumOver([key \in months |-> by_month[key].spam_emails], months)
    /\ \A name \in CountedKeywords(by_month) \cup DOMAIN bucket.keyword_matches :
        BucketOf(bucket.keyword_matches, name, 0) =
            SumOver([key \in months |-> BucketOf(by_month[key].keyword_matches, name, 0)],
                    months)

C29_MonthsAndYearsAgree ==
    SpamReturned =>
        LET by_month == analysis_data.by_month
            by_year == analysis_data.by_year
        IN  /\ \A year \in DOMAIN by_year :
                YearIsSumOfMonths(by_month, year, by_year[year])
            /\ \A key \in DOMAIN by_month :
                \E year \in DOMAIN by_year : key \in MonthsOfYear(by_month, year)
            /\ analysis_data.summary.total_emails_analyzed =
                SumOver([year \in DOMAIN by_year |-> by_year[year].total_emails],
                        DOMAIN by_year)
            /\ analysis_data.summary.total_spam_emails =
                SumOver([year \in DOMAIN by_year |-> by_year[year].spam_emails],
                        DOMAIN by_year)

\* two records of 2020 fall in two months, both of them spam
C29_Witness ==
    /\ SpamReturned
    /\ DOMAIN analysis_data.by_year = {2020}
    /\ Cardinality(DOMAIN analysis_data.by_month) = 2
    /\ analysis_data.by_year[2020].total_emails = 2
    /\ analysis_data.by_year[2020].spam_emails = 2
    /\ analysis_data.summary.total_emails_analyzed = 2

(***************************************************************************)
(* C28: filter_emails is idempotent: given its own output and the same     *)
(* keyword arguments it returns that output unchanged, for every dataset   *)
(* and every FilterSpec, with or without limit.                            *)
(***************************************************************************)
FilterReturned == command = "filter_emails" /\ ~raised

C28_FilterIdempotent ==
    FilterReturned => filter_emails(results, filters) = Outcome(FALSE, results)

\* with no negative limit the output is a fixed point
C28_IdempotentWithoutNegativeLimit ==
    (FilterReturned /\ \A i \in 1..Len(filters) : filters[i].num >= 0) =>
        filter_emails(results, filters) = Outcome(FALSE, results)

(***************************************************************************)
(* analyze_domains.py analyze_top_domains.                                 *)
(***************************************************************************)
\* longest list of pattern-matching records given to analyze_top_domains
MaxMatches == 4

\* the records query wrote to /tmp/pattern_matches.json; analyze_top_domains
\* reads their from_domain only
MatchRecords ==
    { EmailRecord(d, T_2020_01, S_Unsub, B_unsub, TRUE) : d \in {D_xedu, D_x_org, D_b_co} }

MatchLists == UNION { [1..n -> MatchRecords] : n \in 0..MaxMatches }

\* --threshold, a float in (0, 1]: 0.5, 0.95 and 1.0
Thresholds == {Ratio(1, 2), Ratio(19, 20), Ratio(1, 1)}

\* line 28: Counter(...)[d]
DomainCount(es, d) == Cardinality({ i \in 1..Len(es) : es[i].from_domain = d })

\* the place of d in the Counter, which keeps its keys in insertion order
FirstSeen(es, d) == CHOOSE i \in 1..Len(es) :
    /\ es[i].from_domain = d
    /\ \A j \in 1..(i - 1) : es[j].from_domain # d

RECURSIVE MostCommon(_, _)
\* line 31: most_common(), by count, largest first, equal counts in
\* insertion order
MostCommon(es, ds) ==
    IF ds = {} THEN <<>>
    ELSE LET first == CHOOSE d \in ds : \A other \in ds \ {d} :
                 \/ DomainCount(es, d) > DomainCount(es, other)
                 \/ /\ DomainCount(es, d) = DomainCount(es, other)
                    /\ FirstSeen(es, d) < FirstSeen(es, other)
         IN  <<first>> \o MostCommon(es, ds \ {first})

\* a >= b for two quotients with positive denominators
RatioAtLeast(a, b) == a.num * b.den >= b.num * a.den

TopDomains(exc, top, coverage) ==
    [exception |-> exc, top_domains |-> top, coverage |-> coverage]

RECURSIVE TopLoop(_, _, _, _, _, _)
\* lines 35-48: the loop over sorted_domains from the k-th; the quotients of
\* lines 37 and 38 are kept exact
TopLoop(es, sorted_domains, t, k, cumulative, top) ==
    IF k > Len(sorted_domains)
        THEN [cumulative |-> cumulative, top_domains |-> top]
    ELSE LET count == DomainCount(es, sorted_domains[k])
             total == Len(es)
             row == [domain |-> sorted_domains[k],
                     count |-> count,
                     percentage |-> Ratio(count * 100, total),
                     cumulative_percentage |-> Ratio(cumulative + count, total)]
         IN  IF RatioAtLeast(row.cumulative_percentage, t)
                 THEN [cumulative |-> cumulative + count, top_domains |-> Append(top, row)]
             ELSE TopLoop(es, sorted_domains, t, k + 1, cumulative + count,
                          Append(top, row))

\* line 50: cumulative / total
Coverage(cumulative, total) ==
    IF total = 0 THEN TopDomains("ZeroDivisionError", <<>>, Ratio(0, 1))
    ELSE TopDomains("none", <<>>, Ratio(cumulative, total))

\* lines 26-50; with no record the loop does not run and line 50 divides 0 by 0
analyze_top_domains(es, t) ==
    LET sorted_domains == MostCommon(es, { es[i].from_domain : i \in 1..Len(es) })
        o == TopLoop(es, sorted_domains, t, 1, 0, <<>>)
        c == Coverage(o.cumulative, Len(es))
    IN  IF c.exception # "none" THEN c
        ELSE TopDomains("none", o.top_domains, c.coverage)

\* lines 26-50: analyze_top_domains called on the records of a query
CallAnalyzeTopDomains ==
    /\ command = "none"
    /\ \E es \in MatchLists, t \in Thresholds :
        LET o == analyze_top_domains(es, t) IN
        /\ command' = "analyze_top_domains"
        /\ emails' = es
        /\ threshold' = t
        /\ analysis' = "top_domains"
        /\ analysis_data' = [top_domains |-> o.top_domains, coverage |-> o.coverage]
        /\ exception' = o.exception
        /\ raised' = (o.exception # "none")
    /\ UNCHANGED <<filters, pattern, case_sensitive, results, output_written,
                   error_printed, exit_code, cfgVars, email_addr, returned,
                   store_exists, store, store_read, rows, profile, output_format,
                   year_arg, keyword_patterns, cliVars, wfVars>>

NextTopDomains == CallAnalyzeTopDomains

SpecTopDomains == Init /\ [][NextTopDomains]_vars

(***************************************************************************)
(* C30: analyze_top_domains returns without raising for every list of      *)
(* pattern-matching records, the empty list included, and every threshold  *)
(* in (0, 1]: the result is the shortest prefix of the domains in          *)
(* non-increasing order of record count whose cumulative share of the      *)
(* records is >= threshold, cumulative_percentage never decreasing along   *)
(* it, together with the coverage of that prefix.                          *)
(***************************************************************************)
TopDomainsCalled == command = "analyze_top_domains"

\* the records of the first k rows
CoveredBy(top, k) ==
    { i \in 1..Len(emails) : \E j \in 1..k : emails[i].from_domain = top[j].domain }

\* top is the shortest prefix, by falling count, that covers threshold
ShortestCoveringPrefix(top, coverage) ==
    /\ \A i, j \in 1..Len(top) : i # j => top[i].domain # top[j].domain
    /\ \A i \in 1..Len(top) :
        /\ top[i].count = DomainCount(emails, top[i].domain)
        /\ top[i].count > 0
        /\ top[i].cumulative_percentage =
            Ratio(Cardinality(CoveredBy(top, i)), Len(emails))
    /\ \A i \in 1..(Len(top) - 1) :
        /\ top[i].count >= top[i + 1].count
        /\ RatioAtLeast(top[i + 1].cumulative_percentage, top[i].cumulative_percentage)
        /\ ~RatioAtLeast(top[i].cumulative_percentage, threshold)
    /\ \A i \in 1..Len(emails) :
        \/ i \in CoveredBy(top, Len(top))
        \/ DomainCount(emails, emails[i].from_domain) <= top[Len(top)].count
    /\ top # <<>>
    /\ RatioAtLeast(top[Len(top)].cumulative_percentage, threshold)
    /\ coverage = top[Len(top)].cumulative_percentage

C30_TopDomainsCoverThreshold ==
    TopDomainsCalled =>
        /\ ~raised
        /\ emails # <<>> =>
            ShortestCoveringPrefix(analysis_data.top_domains, analysis_data.coverage)
        /\ emails = <<>> => analysis_data.top_domains = <<>>

\* on every list that holds a record the result is as claimed
C30_HoldsOnNonEmptyLists ==
    (TopDomainsCalled /\ emails # <<>>) =>
        /\ ~raised
        /\ ShortestCoveringPrefix(analysis_data.top_domains, analysis_data.coverage)

\* two of three domains reach one half of four records
C30_TwoOfThreeDomains ==
    /\ TopDomainsCalled
    /\ Len(emails) = 4
    /\ Cardinality({ emails[i].from_domain : i \in 1..4 }) = 3
    /\ threshold = Ratio(1, 2)
    /\ Len(analysis_data.top_domains) = 1
    /\ analysis_data.coverage = Ratio(2, 4)

(***************************************************************************)
(* lib/workflow.py run_workflow.                                           *)
(***************************************************************************)
\* most steps of one workflow file
MaxSteps == 3

\* lines 36-39: the commands of tm.py
tm_actions == {"extract", "filter", "query", "stats"}

\* lines 41-70: the scripts found under analyzers/, plotters/ and tools/
ToolScripts ==
    {"analyze_temporal", "analyze_spam_keywords", "plot_temporal", "plot_spam_trends",
     "backup_profile"}

\* one step of the workflow file; a step may lack its `action` key
Step(action) == [has_action |-> TRUE, action |-> action]
StepWithoutAction == [has_action |-> FALSE, action |-> ""]

StepValues ==
    {Step("stats"), Step("analyze_temporal"), Step("no_such_tool"), StepWithoutAction}

Workflows == UNION { [1..n -> StepValues] : n \in 0..MaxSteps }

\* the exit status of a sub-tool
ReturnCodes == {0, 1, 2}

\* lines 32-72: a command line is found for the action; action None passes
\* the tests of lines 38-54 and raises AttributeError at line 57
find_tool_script(step) ==
    IF step.has_action THEN
        [exception |-> "none", found |-> step.action \in tm_actions \cup ToolScripts]
    ELSE [exception |-> "AttributeError", found |-> FALSE]

\* the record of one executed step: its number, the exit status of its
\* sub-tool (-1 when none was started) and what execute_step returned
Executed(i, returncode, ok) == [step |-> i, returncode |-> returncode, ok |-> ok]

\* lines 153-157, were the `break` left out
AfterStepWithoutBreak(ok, i, count) ==
    [workflow_state |-> "running", step_index |-> i + 1,
     success_count |-> count + (IF ok THEN 1 ELSE 0)]

\* lines 153-157: count the step and go on, or stop the loop
AfterStep(ok, i, count) ==
    IF ok THEN [workflow_state |-> "running", step_index |-> i + 1,
                success_count |-> count + 1]
    ELSE [workflow_state |-> "stopped", step_index |-> i, success_count |-> count]

\* lines 135-147: run_workflow reads the workflow file
RunWorkflow ==
    /\ command = "none"
    /\ \E workflow \in Workflows :
        /\ command' = "run_workflow"
        /\ steps' = workflow
        /\ step_index' = 1
        /\ executed' = <<>>
        /\ success_count' = 0
        /\ workflow_state' = "running"
    /\ UNCHANGED <<emails, filters, pattern, case_sensitive, results, output_written,
                   raised, error_printed, exit_code, cfgVars, exVars, agVars, cliVars,
                   workflow_returned, adVars>>

\* lines 149-157 with execute_step (115-132) and run_command (17-29): one
\* turn of the loop; the step fails when no script is found for its action
\* or when its sub-tool exits with a non-zero status
ExecuteStep ==
    /\ workflow_state = "running"
    /\ step_index <= Len(steps)
    /\ LET tool == find_tool_script(steps[step_index]) IN
       IF tool.exception # "none"
           THEN /\ workflow_state' = "raised"
                /\ exception' = tool.exception
                /\ raised' = TRUE
                /\ UNCHANGED <<step_index, executed, success_count>>
       ELSE \E returncode \in IF tool.found THEN ReturnCodes ELSE {-1} :
            LET ok == tool.found /\ returncode = 0
                after == AfterStep(ok, step_index, success_count)
            IN  /\ executed' = Append(executed, Executed(step_index, returncode, ok))
                /\ workflow_state' = after.workflow_state
                /\ step_index' = after.step_index
                /\ success_count' = after.success_count
                /\ UNCHANGED <<exception, raised>>
    /\ UNCHANGED <<command, emails, filters, pattern, case_sensitive, results,
                   output_written, error_printed, exit_code, cfgVars, email_addr,
                   returned, store_exists, store, store_read, rows, profile,
                   output_format, agVars, cliVars, steps, workflow_returned, adVars>>

\* lines 159-162: after the loop
ReturnWorkflow ==
    /\ \/ workflow_state = "stopped"
       \/ workflow_state = "running" /\ step_index > Len(steps)
    /\ workflow_state' = "returned"
    /\ workflow_returned' = (success_count = Len(steps))
    /\ UNCHANGED <<tmVars, cfgVars, exVars, agVars, cliVars, steps, step_index,
                   executed, success_count, adVars>>

NextWorkflow == RunWorkflow \/ ExecuteStep \/ ReturnWorkflow

SpecWorkflow == Init /\ [][NextWorkflow]_vars

(***************************************************************************)
(* C27: run_workflow executes the steps in their listed order and stops at *)
(* the first step that fails (unknown action, or non-zero exit of the      *)
(* sub-tool): no step is executed after a failed one, success_count is the *)
(* number of steps that ran before the failure, and the function returns   *)
(* true iff every step of the workflow succeeded.                          *)
(***************************************************************************)
\* a step has failed
SomeStepFailed == \E k \in 1..Len(executed) : ~executed[k].ok

\* the steps executed so far are the first ones, in order, and only the
\* last of them can have failed
ExecutedInOrder ==
    /\ Len(executed) <= Len(steps)
    /\ \A k \in 1..Len(executed) :
        /\ executed[k].step = k
        /\ executed[k].ok =
            /\ steps[k].action \in tm_actions \cup ToolScripts
            /\ executed[k].returncode = 0
    /\ \A k \in 1..(Len(executed) - 1) : executed[k].ok

EveryStepSucceeded ==
    /\ Len(executed) = Len(steps)
    /\ ~SomeStepFailed

WorkflowOrdered ==
    /\ ExecutedInOrder
    /\ success_count = Cardinality({ k \in 1..Len(executed) : executed[k].ok })
    /\ workflow_state = "returned" => (workflow_returned <=> EveryStepSucceeded)
    /\ workflow_state # "returned" => ~workflow_returned

\* once a step has failed no step is executed and nothing is counted
NothingAfterFailure ==
    SomeStepFailed => (executed' = executed /\ success_count' = success_count)

C27_WorkflowStopsAtFirstFailure == [](WorkflowOrdered) /\ [][NothingAfterFailure]_vars

\* the second of three steps failed: one step counted, the third never ran,
\* and run_workflow returned false
C27_Witness ==
    /\ workflow_state = "returned"
    /\ Len(steps) = 3
    /\ Len(executed) = 2
    /\ executed[1].ok
    /\ ~executed[2].ok
    /\ success_count = 1
    /\ ~workflow_returned

\* three steps ran and run_workflow returned true
C27_AllSucceeded ==
    /\ workflow_state = "returned"
    /\ Len(steps) = 3
    /\ success_count = 3
    /\ workflow_returned

(***************************************************************************)
(* tm.py stats.                                                            *)
(***************************************************************************)
\* longest dataset file read by stats, the two fixed datasets apart
MaxStatsEmails == 2

\* line 164: the slice [:10]
TopLimit == 10

D_shop_edu == <<"s", "h", "o", "p", ".", "e", "d", "u">>
B_to_unsubscribe == <<"t", "o", " ", "u", "n", "s", "u", "b", "s", "c", "r", "i", "b", "e">>
P_unsubscribe == <<"u", "n", "s", "u", "b", "s", "c", "r", "i", "b", "e">>
T_n_a == <<"n", "/", "a">>

\* three records: from news@shop.edu with a body that holds `unsubscribe`,
\* from a@b.com with an empty body and subject `hello`, and one whose `from`
\* header holds no address
Scenario ==
    << EmailRecord(D_shop_edu, T_2020_01, S_Sale, B_to_unsubscribe, TRUE),
       EmailRecord(D_b_com, T_2019_12, S_hello, Empty, FALSE),
       EmailRecord(W_malformed, T_2020_01, S_bye, Empty, FALSE) >>

\* twelve records from eleven domains, the first domain seen twice
ManyDomains ==
    [k \in 1..(TopLimit + 2) |->
        EmailRecord(<<"d", LowerChars[((k - 1) % (TopLimit + 1)) + 1]>>,
                    T_2020_01, S_hello, Empty, FALSE)]

\* the records the other datasets of stats are drawn from: two with a
\* date, one with an empty date and one with a date of three characters
StatsRecords ==
    { EmailRecord(D_xedu, T_2020_01, S_hello, B_hi, TRUE),
      EmailRecord(D_b_com, T_2019_12, S_hello, Empty, FALSE),
      EmailRecord(D_xedu, Empty, S_hello, Empty, FALSE),
      EmailRecord(D_b_com, T_n_a, S_bye, B_hi, TRUE) }

StatsDatasets ==
    UNION { [1..n -> StatsRecords] : n \in 0..MaxStatsEmails }
        \cup {Scenario, ManyDomains}

\* lines 147-148: the key of a record in `years`
YearKey(e) == IF Len(e.date) >= 4 THEN SubSeq(e.date, 1, 4) ELSE W_unknown

\* min() (largest = FALSE) or max() of the keys of a dict of str
KeyAtEnd(keys, largest) ==
    CHOOSE k \in keys : \A other \in keys \ {k} :
        IF largest THEN StrLess(other, k) ELSE StrLess(k, other)

\* what stats printed: the lines 159-161, the line 162 and the lines
\* 163-165; `completed` is false when the command stopped before line 162
Report(total, with_bodies, unique, first, last, top, completed) ==
    [total_emails |-> total, with_bodies |-> with_bodies, unique_domains |-> unique,
     date_range |-> [start |-> first, end |-> last], top_domains |-> top,
     completed |-> completed]

\* lines 163-165: the first ten of the domains sorted by count
TopTen(sorted_domains) == SliceTo(sorted_domains, TopLimit)

\* lines 143-144, were the records without an address left out
StatsDomainsWithoutMalformed(es) ==
    { es[i].from_domain : i \in 1..Len(es) } \ {W_malformed, W_unknown}

\* lines 143-144: the keys of `domains`
StatsDomains(es) == { es[i].from_domain : i \in 1..Len(es) }

\* lines 131-165; min() of no key raises ValueError at line 162
stats(es) ==
    LET domains == StatsDomains(es)
        years == { YearKey(es[i]) : i \in 1..Len(es) }
        with_bodies == Cardinality({ i \in 1..Len(es) : es[i].has_body })
        sorted_domains == MostCommon(es, domains)
        top == TopTen(sorted_domains)
    IN  IF years = {}
            THEN [exception |-> "ValueError",
                  report |-> Report(Len(es), with_bodies, Cardinality(domains),
                                    Empty, Empty, <<>>, FALSE)]
        ELSE [exception |-> "none",
              report |-> Report(Len(es), with_bodies, Cardinality(domains),
                                KeyAtEnd(years, FALSE), KeyAtEnd(years, TRUE),
                                [k \in 1..Len(top) |->
                                    [domain |-> top[k],
                                     count |-> DomainCount(es, top[k])]],
                                TRUE)]

\* lines 202-204, 222-223, 226-228: `tm.py stats`
MainStats ==
    /\ command = "none"
    /\ \E es \in StatsDatasets :
        LET o == stats(es) IN
        /\ command' = "stats"
        /\ emails' = es
        /\ report' = o.report
        /\ exception' = o.exception
        /\ raised' = (o.exception # "none")
        /\ error_printed' = (o.exception # "none")
        /\ exit_code' = ExitStatus(o.exception # "none")
    /\ UNCHANGED <<filters, pattern, case_sensitive, results, output_written,
                   cfgVars, email_addr, returned, store_exists, store, store_read,
                   rows, profile, output_format, agVars, format_arg, config,
                   output_file, format_used, wfVars, adVars>>

(***************************************************************************)
(* lib/output.py write_data, lib/config.py get_output_format and the       *)
(* output format of the tm.py commands.                                    *)
(***************************************************************************)
O_json == <<"o", ".", "j", "s", "o", "n">>
O_csv == <<"o", ".", "c", "s", "v">>
O_yml == <<"r", ".", "d", "/", "o", ".", "y", "m", "l">>
O_YAML == <<"o", ".", "Y", "A", "M", "L">>
O_txt == <<"o", ".", "c", "s", "v", ".", "t", "x", "t">>
O_bare == <<"r", ".", "c", "s", "v", "/", "o", "u", "t">>
O_dot_csv == <<".", "c", "s", "v">>
O_default == <<"d", "a", "t", "a", "/", "c", "o", "m", "p", "l", "e", "t", "e", "_",
               "d", "a", "t", "a", "s", "e", "t", ".", "j", "s", "o", "n">>

\* the destinations given on the command line
OutputFiles == {O_json, O_csv, O_yml, O_YAML, O_txt, O_bare, O_dot_csv}

\* --format: not given, or one of argparse's choices
FormatFlags == {"none"} \cup SupportedFormats

\* config.yaml: `defaults.output_format` and `data.default_format`, each
\* absent, null or a name
Configs ==
    [output_format : {"absent", "null", "csv", "xml"},
     default_format : {"absent", "null", "yaml"}]

\* str.rfind(c) + 1: the last place of c in s, 0 when there is none
LastIndexOf(s, c) ==
    IF \E i \in 1..Len(s) : s[i] = c
        THEN CHOOSE i \in 1..Len(s) : s[i] = c /\ \A j \in (i + 1)..Len(s) : s[j] # c
    ELSE 0

\* Path(output_file).suffix: what follows the last dot of the last
\* component, the dot included, unless the dot comes first or last
Suffix(file) ==
    LET name == DropPrefix(file, LastIndexOf(file, "/"))
        dot == LastIndexOf(name, ".")
    IN  IF 1 < dot /\ dot < Len(name) THEN DropPrefix(name, dot - 1) ELSE Empty

\* output.py lines 62-71: the format of an extension
FormatOfExtension(file) ==
    LET ext == Lower(Suffix(file)) IN
    IF ext = <<".", "j", "s", "o", "n">> THEN "json"
    ELSE IF ext = <<".", "c", "s", "v">> THEN "csv"
    ELSE IF ext \in {<<".", "y", "a", "m", "l">>, <<".", "y", "m", "l">>} THEN "yaml"
    ELSE "json"

\* output.py lines 57-82; format_type "none" is None
write_data(file, format_type) ==
    LET format == IF format_type = "none" THEN FormatOfExtension(file)
                  ELSE format_type
    IN  IF format \in SupportedFormats
            THEN [exception |-> "none", format_used |-> format]
        ELSE [exception |-> "ValueError", format_used |-> "none"]

\* config.py lines 36-47 with format_arg None: a key that is absent or null
\* reads as None; `data.default_format` has the default "json" when absent
get_output_format(conf) ==
    IF conf.output_format \notin {"absent", "null"} THEN conf.output_format
    ELSE IF conf.default_format = "absent" THEN "json"
    ELSE IF conf.default_format = "null" THEN "none"
    ELSE conf.default_format

\* tm.py lines 209, 212, 218: args.format or get_output_format(config)
OutputFormat(flag, conf) == IF flag # "none" THEN flag ELSE get_output_format(conf)

\* the datasets of the runs that choose an output format
OutputDatasets == {<<>>, Scenario}

\* tm.py lines 202-204, 211-216, 226-228: `tm.py filter` with --format and
\* config.yaml as given, and --domain or no filter flag
MainFilterOutput ==
    /\ command = "none"
    /\ \E es \in OutputDatasets, fs \in {<<>>, <<Arg("domain", P_star_edu, FALSE, 0)>>},
          flag \in FormatFlags, conf \in Configs, path \in OutputFiles :
        LET o == filter_emails(es, CliKwargs(fs))
            w == write_data(path, OutputFormat(flag, conf))
            failed == o.raised \/ w.exception # "none"
        IN
        /\ command' = "filter"
        /\ emails' = es
        /\ filters' = CliKwargs(fs)
        /\ results' = o.results
        /\ format_arg' = flag
        /\ config' = conf
        /\ output_file' = path
        /\ output_format' = OutputFormat(flag, conf)
        /\ format_used' = IF failed THEN "none" ELSE w.format_used
        /\ output_written' = ~failed
        /\ exception' = IF o.raised THEN "OverflowError" ELSE w.exception
        /\ raised' = failed
        /\ error_printed' = failed
        /\ exit_code' = ExitStatus(failed)
    /\ UNCHANGED <<pattern, case_sensitive, cfgVars, email_addr, returned,
                   store_exists, store, store_read, rows, profile, agVars, report,
                   wfVars, adVars>>

\* tm.py lines 202-204, 217-221, 226-228: `tm.py query` with --format and
\* config.yaml as given
MainQueryOutput ==
    /\ command = "none"
    /\ \E es \in OutputDatasets, p \in {Empty, P_unsubscribe, P_paren_u},
          flag \in FormatFlags, conf \in Configs, path \in OutputFiles :
        LET o == query_emails(es, p, FALSE)
            w == write_data(path, OutputFormat(flag, conf))
            failed == o.raised \/ w.exception # "none"
        IN
        /\ command' = "query"
        /\ emails' = es
        /\ pattern' = p
        /\ results' = o.results
        /\ format_arg' = flag
        /\ config' = conf
        /\ output_file' = path
        /\ output_format' = OutputFormat(flag, conf)
        /\ format_used' = IF failed THEN "none" ELSE w.format_used
        /\ output_written' = ~failed
        /\ exception' = IF o.raised THEN "re.error" ELSE w.exception
        /\ raised' = failed
        /\ error_printed' = failed
        /\ exit_code' = ExitStatus(failed)
    /\ UNCHANGED <<filters, case_sensitive, cfgVars, email_addr, returned,
                   store_exists, store, store_read, rows, profile, agVars, report,
                   wfVars, adVars>>

\* a store of one message
OneMessageStore ==
    StoreOf(<<MessageCase(PyStr(M_abc), SqlInt(61000000), SqlInt(1),
                          ContentRow(PyStr(X_Bob), PyStr(A_me), PyStr(S_Hello),
                                     PyStr(B_hi)))>>)

\* tm.py lines 202-210, 226-228: `tm.py extract --profile` on a profile that
\* holds a store, with --format, --output and config.yaml as given; without
\* --output the destination is complete_dataset.json in the data directory
MainExtractOutput ==
    /\ command = "none"
    /\ \E st \in {StoreOf(<<>>), OneMessageStore}, flag \in FormatFlags,
          conf \in Configs, out \in OutputFiles \cup {Empty} :
       \E p \in OrderByDateDesc(st) :
        LET path == IF Truthy(out) THEN out ELSE O_default
            w == write_data(path, OutputFormat(flag, conf))
            o == extract_complete_dataset(TRUE, st, p,
                    IF w.exception = "none" THEN w.format_used
                    ELSE OutputFormat(flag, conf))
        IN
        /\ command' = "extract"
        /\ profile' = PyStr(P_assets)
        /\ store_exists' = TRUE
        /\ store' = st
        /\ store_read' = o.store_read
        /\ rows' = o.rows
        /\ emails' = o.emails
        /\ format_arg' = flag
        /\ config' = conf
        /\ output_file' = path
        /\ output_format' = OutputFormat(flag, conf)
        /\ format_used' = IF o.written THEN w.format_used ELSE "none"
        /\ output_written' = o.written
        /\ exception' = o.exception
        /\ raised' = (o.exception # "none")
        /\ error_printed' = (o.exception # "none")
        /\ exit_code' = ExitStatus(o.exception # "none")
    /\ UNCHANGED <<filters, pattern, case_sensitive, results, cfgVars, email_addr,
                   returned, agVars, report, wfVars, adVars>>

NextOutput == MainFilterOutput \/ MainQueryOutput \/ MainExtractOutput

SpecOutput == Init /\ [][NextOutput]_vars

\* every command of tm.py
NextMain ==
    \/ MainExtract \/ MainFilter \/ MainQuery \/ MainStats
    \/ MainExtractOutput \/ MainFilterOutput \/ MainQueryOutput

SpecMain == Init /\ [][NextMain]_vars

(***************************************************************************)
(* C23: in every run of a tm.py command (extract, filter, query, stats) an *)
(* error raised while the command executes is caught at the top level, a   *)
(* message with the `Error:` prefix is printed and the process exits with  *)
(* a non-zero status; a command that completes exits with status zero.     *)
(***************************************************************************)
TmCommandRan == command \in {"extract", "filter", "query", "stats"}

C23_ErrorsCaughtAtTopLevel ==
    TmCommandRan =>
        IF raised THEN error_printed /\ exit_code > 0
        ELSE ~error_printed /\ exit_code = 0

\* config.yaml names a format write_data does not know: filter raised
\* ValueError, wrote nothing and exited with status 1
C23_Witness ==
    /\ command = "filter"
    /\ raised
    /\ exception = "ValueError"
    /\ output_format = "xml"
    /\ ~output_written
    /\ error_printed
    /\ exit_code = 1

\* a query that found records wrote them and exited with status 0
C23_CompletedExitsZero ==
    /\ command = "query"
    /\ ~raised
    /\ results # <<>>
    /\ output_written
    /\ exit_code = 0

(***************************************************************************)
(* C24: extract, filter and query write their dataset in the format of the *)
(* --format flag when one is given, and otherwise in the format of the     *)
(* destination's extension: `.json` JSON, `.csv` CSV, `.yml` and `.yaml`   *)
(* YAML, any other extension JSON.                                         *)
(***************************************************************************)
DatasetWritten == command \in {"extract", "filter", "query"} /\ output_written

C24_FormatByFlagOrExtension ==
    DatasetWritten =>
        format_used = IF format_arg # "none" THEN format_arg
                      ELSE FormatOfExtension(output_file)

\* a --format flag decides the format, whatever the destination
C24_FlagDecides ==
    (DatasetWritten /\ format_arg # "none") => format_used = format_arg

\* without the flag the format is the one config.yaml names, JSON when it
\* names none, and the extension's only when `data.default_format` is null
C24_ConfigDecidesWithoutFlag ==
    (DatasetWritten /\ format_arg = "none") =>
        format_used =
            IF config.output_format \notin {"absent", "null"} THEN config.output_format
            ELSE IF config.default_format = "absent" THEN "json"
            ELSE IF config.default_format = "null" THEN FormatOfExtension(output_file)
            ELSE config.default_format

\* filter wrote a .csv destination as JSON: no flag, nothing in config.yaml
C24_CsvWrittenAsJson ==
    /\ command = "filter"
    /\ output_written
    /\ format_arg = "none"
    /\ config = NoOutputConfig
    /\ output_file = O_csv
    /\ format_used = "json"

(***************************************************************************)
(* C25: for every dataset file stats completes and reports the number of   *)
(* records, the number of records with has_body true, the number of        *)
(* distinct from_domain values, the smallest and the largest year among    *)
(* the records as the date range, and at most 10 domains in non-increasing *)
(* order of record count.                                                  *)
(***************************************************************************)
StatsRan == command = "stats"

\* the years of the records that have one
YearsOfRecords ==
    { SubSeq(emails[i].date, 1, 4) : i \in { i \in 1..Len(emails) : Len(emails[i].date) >= 4 } }

\* the report of a completed run is the one the claim describes
ReportAsClaimed ==
    /\ report.total_emails = Len(emails)
    /\ report.with_bodies = Cardinality({ i \in 1..Len(emails) : emails[i].has_body })
    /\ report.unique_domains =
        Cardinality({ emails[i].from_domain : i \in 1..Len(emails) })
    /\ report.date_range.start \in YearsOfRecords
    /\ \A y \in YearsOfRecords : ~StrLess(y, report.date_range.start)
    /\ report.date_range.end \in YearsOfRecords
    /\ \A y \in YearsOfRecords : ~StrLess(report.date_range.end, y)
    /\ Len(report.top_domains) <= TopLimit
    /\ \A k \in 1..Len(report.top_domains) :
        report.top_domains[k].count = DomainCount(emails, report.top_domains[k].domain)
    /\ \A k \in 1..(Len(report.top_domains) - 1) :
        report.top_domains[k].count >= report.top_domains[k + 1].count

C25_StatsReports ==
    StatsRan =>
        /\ ~raised
        /\ exit_code = 0
        /\ report.completed
        /\ ReportAsClaimed

\* on a dataset whose records all have a date of four characters or more,
\* stats completes with the report the claim describes
C25_HoldsWhenEveryRecordIsDated ==
    (StatsRan /\ emails # <<>> /\ \A i \in 1..Len(emails) : Len(emails[i].date) >= 4) =>
        /\ ~raised
        /\ report.completed
        /\ ReportAsClaimed

\* of eleven domains ten are listed, the one with two records first
C25_TopTenOfEleven ==
    /\ StatsRan
    /\ report.completed
    /\ report.unique_domains = TopLimit + 1
    /\ Len(report.top_domains) = TopLimit
    /\ report.top_domains[1].count = 2

\* stats stopped on the empty dataset
C25_EmptyDatasetFails ==
    /\ StatsRan
    /\ emails = <<>>
    /\ exception = "ValueError"
    /\ exit_code = 1

(***************************************************************************)
(* C26: on the dataset of three records (from news@shop.edu with a body    *)
(* that holds `unsubscribe`; from a@b.com with an empty body and subject   *)
(* `hello`; one with a malformed `from`), filter with domain `*.edu` and   *)
(* query with pattern `unsubscribe` each yield exactly the first record,   *)
(* and stats reports 3 records, 1 with a body and 3 domains, `malformed`   *)
(* among them.                                                             *)
(***************************************************************************)
X_news_shop_edu ==
    <<"n", "e", "w", "s", "@", "s", "h", "o", "p", ".", "e", "d", "u">>
X_a_b_com == <<"a", "@", "b", ".", "c", "o", "m">>

\* the from_domain of the three records is what extraction derives
ScenarioDomainsExtracted ==
    /\ extract_domain(PyStr(X_news_shop_edu)) = Returned(Scenario[1].from_domain)
    /\ extract_domain(PyStr(X_a_b_com)) = Returned(Scenario[2].from_domain)
    /\ extract_domain(PyStr(X_not_an_address)) = Returned(Scenario[3].from_domain)

OnScenario == emails = Scenario /\ ScenarioDomainsExtracted

FilteredByEduWildcard ==
    /\ command = "filter"
    /\ OnScenario
    /\ filters = <<Arg("domain", P_star_edu, FALSE, 0)>>

QueriedForUnsubscribe ==
    /\ command = "query"
    /\ OnScenario
    /\ pattern = P_unsubscribe

C26_EndToEndScenario ==
    /\ ScenarioDomainsExtracted
    /\ FilteredByEduWildcard => results = <<Scenario[1]>>
    /\ QueriedForUnsubscribe => results = <<Scenario[1]>>
    /\ (StatsRan /\ OnScenario) =>
        /\ report.completed
        /\ report.total_emails = 3
        /\ report.with_bodies = 1
        /\ report.unique_domains = 3
        /\ \E k \in 1..Len(report.top_domains) :
            report.top_domains[k] = [domain |-> W_malformed, count |-> 1]

\* filter wrote the first record of the three
C26_Witness ==
    /\ FilteredByEduWildcard
    /\ output_written
    /\ results = <<Scenario[1]>>

\* query wrote the first record of the three
C26_QueryWitness ==
    /\ QueriedForUnsubscribe
    /\ output_written
    /\ results = <<Scenario[1]>>

\* stats reported the three records
C26_StatsWitness ==
    /\ StatsRan
    /\ OnScenario
    /\ report.unique_domains = 3
    /\ exit_code = 0

=============================================================================
